---- MODULE Spec2Model ----
(***************************************************************************)
(* Persistence and backup core of inventory-manager:                       *)
(*   - the SQLite store of db.py (SCHEMA_SQL) with its constraints,        *)
(*   - the repositories of repositories.py,                                *)
(*   - the BackupManager of backup.py (UI thread, worker threads, the Qt   *)
(*     event queue, the backup directory).                                 *)
(* Specifications:                                                         *)
(*   Spec            the repositories called from the single UI thread     *)
(*   SpecAudit       items moved and audited, locations and items deleted  *)
(*   SpecCreate      creates with required fields given, empty or missing  *)
(*   SpecFields      sparse updates of a populated store, with the clock   *)
(*   SpecTrail       audits of a populated store, with the clock           *)
(*   SpecGrid        locations created and moved over rows and bins        *)
(*   SpecList        listings of a store of several items                  *)
(*   SpecAlloc       generate_global_id called on several connections      *)
(*   SpecBackup      the backup scheduler and its worker threads           *)
(*   SpecBackupFair  the scheduler with the threads' scheduling fairness   *)
(*   SpecRetention   one backup cycle on a directory that holds backups    *)
(*   SpecSnapshot    one backup cycle concurrent with interactive writes   *)
(***************************************************************************)
EXTENDS Integers, Sequences, FiniteSets, TLC

VARIABLES
    db,          \* the committed content of the store file (all tables)
    now,         \* the wall clock, in whole seconds
    issued,      \* history: how many times generate_global_id returned each id
    lastOp,      \* history: the last repository call and its outcome
    callerPc,    \* SpecAlloc: where each concurrent caller is in generate_global_id
    callerId,    \* SpecAlloc: the id string a caller is inserting / has returned
    callerCalls, \* SpecAlloc: calls each caller has completed
    writer,      \* SpecAlloc: the connection holding the store's write lock (0: none)
    enabled,     \* BackupConfig.enabled
    max_backups, \* BackupConfig.max_backups
    timerActive, \* BackupManager.timer is started
    lockHeld,    \* BackupManager._lock is held
    running,     \* BackupManager._running
    wpc,         \* where each worker thread is in _run_backup ("idle": not started)
    outcome,     \* history: how the copy and prune of each backup went
    removed,     \* the paths prune_backups returned to each worker
    posted,      \* callables queued with QTimer.singleShot, not yet run or discarded
    emitted,     \* history: the signals emitted, in order, with the emitting thread
    nStarted,    \* worker threads launched so far
    budget,      \* _trigger_backup calls this behaviour may still make
    files,       \* the inventory_<timestamp>.db files of the backup directory
    readers,     \* the workers whose copy holds a read lock on the store
    snapAt       \* history: the committed store when each copy took its read lock

repoVars == <<db, now, issued, lastOp>>
allocVars == <<callerPc, callerId, callerCalls, writer>>
schedVars == <<enabled, max_backups, timerActive, lockHeld, running, wpc, outcome,
               removed, posted, emitted, nStarted, budget>>
dirVars == <<files, readers, snapAt>>
backupVars == <<schedVars, dirVars>>
vars == <<repoVars, allocVars, backupVars>>

----------------------------------------------------------------------------
(* Bounds of the model *)

\* candidates drawn by random.randint: 1..MaxLowId and the top of the range
MaxLowId == 2
\* clock readings 0..MaxClock
MaxClock == 1
\* concurrent connections calling generate_global_id
MaxCallers == 2
\* _trigger_backup calls per behaviour (timer fires and manual triggers)
MaxTriggers == 2
\* retention counts -1..MaxRetention
MaxRetention == 1
\* generate_global_id calls per connection
MaxCalls == 2
\* audit records written per behaviour
MaxAudits == 2
\* inventory items of the listed store
MaxItems == 3
\* largest limit and offset of a paged listing
MaxLimit == 2
\* backup files already in the backup directory when the scheduler is built
MaxFiles == 5
\* largest retention count of SpecRetention
MaxKept == 3

(* Program constants *)

\* random.randint(1, 99999999)
IdMax == 99999999
\* f"{...:08d}"
IdWidth == 8

----------------------------------------------------------------------------
(* Values *)

\* SQL NULL / Python None. A text column or an optional argument holds NULL or
\* Some(v); an id is a sequence of digits, never empty.
NULL == <<>>

Some(v) == <<v>>

Put(f, k, v) == [x \in (DOMAIN f) \cup {k} |-> IF x = k THEN v ELSE f[x]]

Remove(f, k) == [x \in (DOMAIN f) \ {k} |-> f[x]]

EmptyTable == [x \in {} |-> NULL]

\* str(n) for n >= 0: the decimal digits, most significant first
RECURSIVE Digits(_)
Digits(n) == IF n < 10 THEN <<n>> ELSE Append(Digits(n \div 10), n % 10)

\* f"{n:08d}": zero-padded on the left to a minimum width of 8
Format08d(n) ==
    LET d == Digits(n)
    IN  IF Len(d) >= IdWidth THEN d
        ELSE [i \in 1..(IdWidth - Len(d)) |-> 0] \o d

\* the values random.randint(1, 99999999) is sampled at
IdSample == (1..MaxLowId) \cup {IdMax}

IdStrings == {Format08d(n) : n \in IdSample}

IsEightDigits(s) ==
    /\ Len(s) = 8
    /\ \A i \in 1..Len(s) : s[i] \in 0..9

----------------------------------------------------------------------------
(* The store: SCHEMA_SQL *)

\* AuditSeq: sqlite_sequence of InventoryAudit (audit_id INTEGER PRIMARY KEY
\* AUTOINCREMENT), the largest audit_id ever given out
EmptyDb ==
    [GlobalId |-> {},
     Vehicle |-> EmptyTable,
     Location |-> EmptyTable,
     Inventory |-> EmptyTable,
     Audit |-> EmptyTable,
     AuditSeq |-> 0]

Ok(d) == [ok |-> TRUE, db |-> d, err |-> "none", rule |-> "none"]

\* sqlite3.IntegrityError; its message names the kind of constraint that failed
\* ("UNIQUE constraint failed: ...", "FOREIGN KEY constraint failed", ...). The
\* statement that raised it has changed nothing.
Fail(d, rule) == [ok |-> FALSE, db |-> d, err |-> "IntegrityError", rule |-> rule]

\* INSERT INTO GlobalId without the PRIMARY KEY check
GlobalIdInsertNoKey(d, s) == Ok([d EXCEPT !.GlobalId = @ \cup {s}])

\* INSERT INTO GlobalId (id) VALUES (?): id TEXT PRIMARY KEY
GlobalIdInsert(d, s) ==
    IF s \in d.GlobalId
    THEN Fail(d, "UNIQUE")
    ELSE Ok([d EXCEPT !.GlobalId = @ \cup {s}])

VehicleTypes == {"Truck", "Trailer"}

\* the CHECK of Vehicle.vehicle_type; a CHECK whose expression is NULL passes
VehicleTypeCheck(ty) == ty = NULL \/ ty[1] \in VehicleTypes

\* INSERT INTO Vehicle: PRIMARY KEY, NOT NULL, CHECK (vehicle_type IN ('Truck','Trailer'))
VehicleInsert(d, id, r) ==
    IF NULL \in {r.vehicle_type, r.vehicle_name, r.vin} THEN Fail(d, "NOT NULL")
    ELSE IF ~VehicleTypeCheck(r.vehicle_type) THEN Fail(d, "CHECK")
    ELSE IF id \in DOMAIN d.Vehicle THEN Fail(d, "UNIQUE")
    ELSE Ok([d EXCEPT !.Vehicle = Put(@, id, r)])

\* a Location table without the UNIQUE constraint
LocationTupleTakenNever(d, id, r) == FALSE

\* CONSTRAINT uq_location_vehicle_side_row_bin UNIQUE (vehicle_id, side, row, bin):
\* row r of location id would repeat the tuple of another row. SQLite takes the
\* NULLs of a UNIQUE column as distinct from one another.
LocationTupleTaken(d, id, r) ==
    \E l \in (DOMAIN d.Location) \ {id} :
        /\ r.vehicle_id # NULL
        /\ d.Location[l].vehicle_id = r.vehicle_id
        /\ d.Location[l].side = r.side
        /\ d.Location[l].row = r.row
        /\ d.Location[l].bin = r.bin

\* a foreign key column holds neither NULL nor a key of the parent table
Dangling(v, parent) == v # NULL /\ v \notin DOMAIN parent

\* an INSERT INTO Location that stamps last_audited_at with the creation time
LocationInsertAudited(d, id, r) ==
    IF r.side = NULL THEN Fail(d, "NOT NULL")
    ELSE IF id \in DOMAIN d.Location \/ LocationTupleTaken(d, id, r) THEN Fail(d, "UNIQUE")
    ELSE IF Dangling(r.vehicle_id, d.Vehicle) THEN Fail(d, "FOREIGN KEY")
    ELSE Ok([d EXCEPT !.Location =
                Put(@, id, [r EXCEPT !.last_audited_at = Some(r.created_at)])])

\* INSERT INTO Location: NOT NULL, PRIMARY KEY, UNIQUE, then at the end of the
\* statement FOREIGN KEY (vehicle_id)
LocationInsert(d, id, r) ==
    IF r.side = NULL THEN Fail(d, "NOT NULL")
    ELSE IF id \in DOMAIN d.Location \/ LocationTupleTaken(d, id, r) THEN Fail(d, "UNIQUE")
    ELSE IF Dangling(r.vehicle_id, d.Vehicle) THEN Fail(d, "FOREIGN KEY")
    ELSE Ok([d EXCEPT !.Location = Put(@, id, r)])

\* INSERT INTO Inventory: PRIMARY KEY, NOT NULL, FOREIGN KEY (location_id)
InventoryInsert(d, id, r) ==
    IF NULL \in {r.description, r.location_id} THEN Fail(d, "NOT NULL")
    ELSE IF id \in DOMAIN d.Inventory THEN Fail(d, "UNIQUE")
    ELSE IF Dangling(r.location_id, d.Location) THEN Fail(d, "FOREIGN KEY")
    ELSE Ok([d EXCEPT !.Inventory = Put(@, id, r)])

\* INSERT INTO InventoryAudit: the next audit_id of the sequence, NOT NULL, the
\* three FOREIGN KEYs. A rejected INSERT leaves the sequence as it was.
AuditInsert(d, r) ==
    IF NULL \in {r.asset_id, r.action, r.audited_at} THEN Fail(d, "NOT NULL")
    ELSE IF \/ Dangling(r.asset_id, d.Inventory)
            \/ Dangling(r.from_location_id, d.Location)
            \/ Dangling(r.to_location_id, d.Location)
    THEN Fail(d, "FOREIGN KEY")
    ELSE Ok([d EXCEPT !.AuditSeq = @ + 1, !.Audit = Put(@, d.AuditSeq + 1, r)])

\* the row with the columns of set given their new values
Patch(r, set) == [c \in DOMAIN r |-> IF c \in DOMAIN set THEN set[c] ELSE r[c]]

\* UPDATE Vehicle SET ... WHERE vehicle_id = ?: no row matched changes nothing
VehicleUpdate(d, id, set) ==
    IF id \notin DOMAIN d.Vehicle THEN Ok(d)
    ELSE LET r == Patch(d.Vehicle[id], set)
         IN  IF ~VehicleTypeCheck(r.vehicle_type)
             THEN Fail(d, "CHECK")
             ELSE Ok([d EXCEPT !.Vehicle[id] = r])

\* UPDATE Location that does not check the vehicle reference
LocationUpdateNoKey(d, id, set) ==
    IF id \notin DOMAIN d.Location THEN Ok(d)
    ELSE Ok([d EXCEPT !.Location[id] = Patch(d.Location[id], set)])

\* UPDATE Location SET ... WHERE location_id = ?
LocationUpdate(d, id, set) ==
    IF id \notin DOMAIN d.Location THEN Ok(d)
    ELSE LET r == Patch(d.Location[id], set)
         IN  IF LocationTupleTaken(d, id, r) THEN Fail(d, "UNIQUE")
             ELSE IF Dangling(r.vehicle_id, d.Vehicle) THEN Fail(d, "FOREIGN KEY")
             ELSE Ok([d EXCEPT !.Location[id] = r])

\* UPDATE Inventory SET ... WHERE asset_id = ?
InventoryUpdate(d, id, set) ==
    IF id \notin DOMAIN d.Inventory THEN Ok(d)
    ELSE LET r == Patch(d.Inventory[id], set)
         IN  IF Dangling(r.location_id, d.Location)
             THEN Fail(d, "FOREIGN KEY")
             ELSE Ok([d EXCEPT !.Inventory[id] = r])

\* DELETE FROM Vehicle that also gives the identifier back to the allocator
VehicleDeleteReclaim(d, id) ==
    Ok([d EXCEPT
        !.Vehicle = Remove(@, id),
        !.GlobalId = @ \ {id},
        !.Location = [l \in DOMAIN @ |->
            IF @[l].vehicle_id = id THEN [@[l] EXCEPT !.vehicle_id = NULL] ELSE @[l]]])

\* DELETE FROM Vehicle under ON DELETE CASCADE: the locations go with the vehicle
VehicleDeleteCascade(d, id) ==
    Ok([d EXCEPT
        !.Vehicle = Remove(@, id),
        !.Location = [l \in {x \in DOMAIN @ : @[x].vehicle_id # id} |-> @[l]]])

\* DELETE FROM Vehicle WHERE vehicle_id = ?: Location.vehicle_id ON DELETE SET NULL
VehicleDelete(d, id) ==
    IF id \notin DOMAIN d.Vehicle THEN Ok(d)
    ELSE Ok([d EXCEPT
        !.Vehicle = Remove(@, id),
        !.Location = [l \in DOMAIN @ |->
            IF @[l].vehicle_id = id THEN [@[l] EXCEPT !.vehicle_id = NULL] ELSE @[l]]])

\* DELETE FROM Location under ON DELETE CASCADE: the items go with the location
LocationDeleteCascade(d, id) ==
    Ok([d EXCEPT
        !.Location = Remove(@, id),
        !.Inventory = [a \in {x \in DOMAIN @ : @[x].location_id # id} |-> @[a]]])

\* DELETE FROM Location WHERE location_id = ?: Inventory.location_id ON DELETE
\* RESTRICT; InventoryAudit.from/to_location_id have no ON DELETE rule (NO ACTION)
LocationDelete(d, id) ==
    IF id \notin DOMAIN d.Location THEN Ok(d)
    ELSE IF \/ \E a \in DOMAIN d.Inventory : d.Inventory[a].location_id = id
            \/ \E u \in DOMAIN d.Audit :
                 \/ d.Audit[u].from_location_id = id
                 \/ d.Audit[u].to_location_id = id
    THEN Fail(d, "FOREIGN KEY")
    ELSE Ok([d EXCEPT !.Location = Remove(@, id)])

\* a DELETE FROM Inventory that leaves the item's audit rows in place
InventoryDeleteKeepAudit(d, id) ==
    IF id \notin DOMAIN d.Inventory THEN Ok(d)
    ELSE Ok([d EXCEPT !.Inventory = Remove(@, id)])

\* DELETE FROM Inventory WHERE asset_id = ?: InventoryAudit.asset_id ON DELETE CASCADE
InventoryDelete(d, id) ==
    IF id \notin DOMAIN d.Inventory THEN Ok(d)
    ELSE Ok([d EXCEPT
        !.Inventory = Remove(@, id),
        !.Audit = [u \in {x \in DOMAIN @ : @[x].asset_id # id} |-> @[u]]])

----------------------------------------------------------------------------
(* The repositories, called from the UI thread: repositories.py *)

\* datetime.now().replace(microsecond=0).isoformat(): the clock at second resolution
iso_now == now

\* the commit of a write transaction waits while a backup copy reads the store
StoreWritableAlways == TRUE

\* sqlite3: a commit needs the store free of readers on other connections; the
\* copy of src.backup(dst) reads it under one read lock from start to end
StoreWritable == readers = {}

Tick ==
    /\ now < MaxClock
    /\ now' = now + 1
    /\ UNCHANGED <<db, issued, lastOp>>

\* an allocator that hands out the candidate without recording it
generate_global_id_unrecorded(d, n) ==
    [id |-> Format08d(n), r |-> Ok(d)]

\* The iteration of generate_global_id's loop that draws candidate n: the INSERT
\* and, when it succeeds, the commit. A failed iteration (IntegrityError,
\* rollback, continue) leaves the store as it was.
generate_global_id(d, n) ==
    LET s == Format08d(n)
    IN  [id |-> s, r |-> GlobalIdInsert(d, s)]

Issue(s) == [issued EXCEPT ![s] = @ + 1]

\* what the caller of the last repository call saw; hit: the statement changed
\* the store; value: the entity a create returned or the (rows, total) a
\* listing returned; query: the arguments of a listing
Called(op, r, id) ==
    lastOp' = [op |-> op, ok |-> r.ok, err |-> r.err, rule |-> r.rule, id |-> id,
               hit |-> r.db # db, value |-> NULL, query |-> NULL]

\* what the caller of a create saw: the entity it returns, unless the INSERT raised
Created(op, r, id, entity) ==
    lastOp' = [op |-> op, ok |-> r.ok, err |-> r.err, rule |-> r.rule, id |-> id,
               hit |-> r.db # db, value |-> IF r.ok THEN Some(entity) ELSE NULL,
               query |-> NULL]

\* the dataclasses of repositories.py
Vehicle(vehicle_id, vehicle_type, vehicle_name, vin, vehicle_number, mileage, last_service, created_at, updated_at) ==
    [vehicle_id |-> vehicle_id, vehicle_type |-> vehicle_type,
     vehicle_name |-> vehicle_name, vin |-> vin, vehicle_number |-> vehicle_number,
     mileage |-> mileage, last_service |-> last_service,
     created_at |-> created_at, updated_at |-> updated_at]

Location(location_id, vehicle_id, side, row, bin, created_at, updated_at, last_audited_at) ==
    [location_id |-> location_id, vehicle_id |-> vehicle_id, side |-> side,
     row |-> row, bin |-> bin, created_at |-> created_at, updated_at |-> updated_at,
     last_audited_at |-> last_audited_at]

InventoryItem(asset_id, description, location_id, consumable, manufacturer, model, serial_number, created_at, updated_at) ==
    [asset_id |-> asset_id, description |-> description, location_id |-> location_id,
     consumable |-> consumable, manufacturer |-> manufacturer, model |-> model,
     serial_number |-> serial_number, created_at |-> created_at,
     updated_at |-> updated_at]

\* VehicleRepository.get_vehicle: Vehicle(**dict(row)) if row else None
get_vehicle(d, vehicle_id) ==
    IF vehicle_id \notin DOMAIN d.Vehicle THEN NULL
    ELSE LET row == d.Vehicle[vehicle_id]
         IN  Some(Vehicle(vehicle_id, row.vehicle_type, row.vehicle_name, row.vin,
                          row.vehicle_number, row.mileage, row.last_service,
                          row.created_at, row.updated_at))

\* LocationRepository.get_location
get_location(d, location_id) ==
    IF location_id \notin DOMAIN d.Location THEN NULL
    ELSE LET row == d.Location[location_id]
         IN  Some(Location(location_id, row.vehicle_id, row.side, row.row, row.bin,
                           row.created_at, row.updated_at, row.last_audited_at))

\* InventoryRepository.get_inventory
get_inventory(d, asset_id) ==
    IF asset_id \notin DOMAIN d.Inventory THEN NULL
    ELSE LET row == d.Inventory[asset_id]
         IN  Some(InventoryItem(asset_id, row.description, row.location_id,
                                row.consumable, row.manufacturer, row.model,
                                row.serial_number, row.created_at, row.updated_at))

\* VehicleRepository.create_vehicle; n is the candidate the allocator ends on
create_vehicle(n, vehicle_type, vehicle_name, vin, vehicle_number, mileage, last_service) ==
    LET t == iso_now
        g == generate_global_id(db, n)
        row == [vehicle_type |-> vehicle_type, vehicle_name |-> vehicle_name,
                vin |-> vin, vehicle_number |-> vehicle_number,
                mileage |-> mileage, last_service |-> last_service,
                created_at |-> t, updated_at |-> t]
        r == VehicleInsert(g.r.db, g.id, row)
    IN  /\ StoreWritable
        /\ g.r.ok
        /\ db' = r.db
        /\ issued' = Issue(g.id)
        /\ Created("create_vehicle", r, g.id,
                   Vehicle(g.id, vehicle_type, vehicle_name, vin, vehicle_number,
                           mileage, last_service, t, t))
        /\ UNCHANGED now

\* LocationRepository.create_location
create_location(n, side, row, bin, vehicle_id) ==
    LET t == iso_now
        g == generate_global_id(db, n)
        rec == [vehicle_id |-> vehicle_id, side |-> side, row |-> row, bin |-> bin,
                created_at |-> t, updated_at |-> t, last_audited_at |-> NULL]
        r == LocationInsert(g.r.db, g.id, rec)
    IN  /\ StoreWritable
        /\ g.r.ok
        /\ db' = r.db
        /\ issued' = Issue(g.id)
        /\ Created("create_location", r, g.id,
                   Location(g.id, vehicle_id, side, row, bin, t, t, NULL))
        /\ UNCHANGED now

\* InventoryRepository.create_inventory
create_inventory(n, description, location_id, consumable, manufacturer, model, serial_number) ==
    LET t == iso_now
        g == generate_global_id(db, n)
        rec == [description |-> description, location_id |-> location_id,
                consumable |-> IF consumable THEN 1 ELSE 0,
                manufacturer |-> manufacturer, model |-> model,
                serial_number |-> serial_number,
                created_at |-> t, updated_at |-> t]
        r == InventoryInsert(g.r.db, g.id, rec)
    IN  /\ StoreWritable
        /\ g.r.ok
        /\ db' = r.db
        /\ issued' = Issue(g.id)
        /\ Created("create_inventory", r, g.id,
                   InventoryItem(g.id, description, location_id,
                                 IF consumable THEN 1 ELSE 0, manufacturer, model,
                                 serial_number, t, t))
        /\ UNCHANGED now

\* what the caller of an update that returned before any statement saw
Returned(op, id) ==
    lastOp' = [op |-> op, ok |-> TRUE, err |-> "none", rule |-> "none", id |-> id,
               hit |-> FALSE, value |-> NULL, query |-> NULL]

\* a SET clause that binds every keyword argument, None as NULL
SetClauseAll(mapping, unwrap) ==
    [key \in (DOMAIN mapping) \cup {"updated_at"} |->
        IF key = "updated_at" THEN iso_now
        ELSE IF key \in unwrap /\ mapping[key] # NULL THEN mapping[key][1]
        ELSE mapping[key]]

\* a SET clause that binds vehicle_id whether or not it is None
SetClauseWithVehicle(mapping, unwrap) ==
    [key \in {k \in DOMAIN mapping : mapping[k] # NULL \/ k = "vehicle_id"}
                \cup {"updated_at"} |->
        IF key = "updated_at" THEN iso_now
        ELSE IF key \in unwrap THEN mapping[key][1]
        ELSE mapping[key]]

\* the keyword arguments that are `not None`, as the SET clause binds them: an
\* optional int or bool argument is NULL or Some(v), a text or id argument is
\* NULL or the column value itself
SetClause(mapping, unwrap) ==
    [key \in {k \in DOMAIN mapping : mapping[k] # NULL} \cup {"updated_at"} |->
        IF key = "updated_at" THEN iso_now
        ELSE IF key \in unwrap THEN mapping[key][1]
        ELSE mapping[key]]

\* VehicleRepository.update_vehicle
update_vehicle(vehicle_id, vehicle_type, vehicle_name, vin, vehicle_number, mileage, last_service) ==
    LET mapping == [vehicle_type |-> vehicle_type, vehicle_name |-> vehicle_name,
                    vin |-> vin, vehicle_number |-> vehicle_number,
                    mileage |-> mileage, last_service |-> last_service]
        set == SetClause(mapping, {"vehicle_number", "mileage", "last_service"})
        r == VehicleUpdate(db, vehicle_id, set)
    IN  /\ IF DOMAIN set = {"updated_at"}
           THEN Returned("update_vehicle", vehicle_id) /\ UNCHANGED db
           ELSE StoreWritable /\ db' = r.db /\ Called("update_vehicle", r, vehicle_id)
        /\ UNCHANGED <<now, issued>>

\* LocationRepository.update_location
update_location(location_id, side, row, bin, vehicle_id, last_audited_at) ==
    LET mapping == [side |-> side, row |-> row, bin |-> bin,
                    vehicle_id |-> vehicle_id, last_audited_at |-> last_audited_at]
        set == SetClause(mapping, {"row", "bin"})
        r == LocationUpdate(db, location_id, set)
    IN  /\ IF DOMAIN set = {"updated_at"}
           THEN Returned("update_location", location_id) /\ UNCHANGED db
           ELSE StoreWritable /\ db' = r.db /\ Called("update_location", r, location_id)
        /\ UNCHANGED <<now, issued>>

\* InventoryRepository.update_inventory; consumable True/False is bound as 1/0
update_inventory(asset_id, description, location_id, consumable, manufacturer, model, serial_number) ==
    LET consumable_value ==
            IF consumable = Some(TRUE) THEN Some(1)
            ELSE IF consumable = Some(FALSE) THEN Some(0)
            ELSE NULL
        mapping == [description |-> description, location_id |-> location_id,
                    consumable |-> consumable_value, manufacturer |-> manufacturer,
                    model |-> model, serial_number |-> serial_number]
        set == SetClause(mapping, {"consumable"})
        r == InventoryUpdate(db, asset_id, set)
    IN  /\ IF DOMAIN set = {"updated_at"}
           THEN Returned("update_inventory", asset_id) /\ UNCHANGED db
           ELSE StoreWritable /\ db' = r.db /\ Called("update_inventory", r, asset_id)
        /\ UNCHANGED <<now, issued>>

\* AuditRepository.record_audit: timestamp = audited_at or iso_now()
record_audit(asset_id, action, from_location_id, to_location_id, notes, user, audited_at) ==
    LET timestamp == IF audited_at = NULL THEN Some(iso_now) ELSE audited_at
        rec == [asset_id |-> asset_id, from_location_id |-> from_location_id,
                to_location_id |-> to_location_id, action |-> action,
                notes |-> notes, audited_at |-> timestamp, user |-> user]
        r == AuditInsert(db, rec)
    IN  /\ StoreWritable
        /\ db' = r.db
        /\ Called("record_audit", r, asset_id)
        /\ UNCHANGED <<now, issued>>

\* the members of a set of integers, largest first (ORDER BY ... DESC)
RECURSIVE Descending(_)
Descending(S) ==
    IF S = {} THEN <<>>
    ELSE LET m == CHOOSE x \in S : \A y \in S : y <= x
         IN  <<m>> \o Descending(S \ {m})

\* AuditRepository.list_audits_for_asset: WHERE asset_id = ? ORDER BY audit_id DESC
list_audits_for_asset(d, asset_id) ==
    LET ids == Descending({u \in DOMAIN d.Audit : d.Audit[u].asset_id = asset_id})
    IN  [i \in 1..Len(ids) |->
            [audit_id |-> ids[i],
             asset_id |-> d.Audit[ids[i]].asset_id,
             from_location_id |-> d.Audit[ids[i]].from_location_id,
             to_location_id |-> d.Audit[ids[i]].to_location_id,
             action |-> d.Audit[ids[i]].action,
             notes |-> d.Audit[ids[i]].notes,
             audited_at |-> d.Audit[ids[i]].audited_at,
             user |-> d.Audit[ids[i]].user]]

\* LocationRepository.list_locations: the rows it returns, by id (`if vehicle_id`
\* takes None and the empty string alike as no filter)
list_locations(d, vehicle_id) ==
    IF vehicle_id # NULL
    THEN {l \in DOMAIN d.Location : d.Location[l].vehicle_id = vehicle_id}
    ELSE DOMAIN d.Location

\* VehicleRepository.delete_vehicle
delete_vehicle(vehicle_id) ==
    LET r == VehicleDelete(db, vehicle_id)
    IN  /\ StoreWritable
        /\ db' = r.db
        /\ Called("delete_vehicle", r, vehicle_id)
        /\ UNCHANGED <<now, issued>>

\* LocationRepository.delete_location
delete_location(location_id) ==
    LET r == LocationDelete(db, location_id)
    IN  /\ StoreWritable
        /\ db' = r.db
        /\ Called("delete_location", r, location_id)
        /\ UNCHANGED <<now, issued>>

\* InventoryRepository.delete_inventory
delete_inventory(asset_id) ==
    LET r == InventoryDelete(db, asset_id)
    IN  /\ StoreWritable
        /\ db' = r.db
        /\ Called("delete_inventory", r, asset_id)
        /\ UNCHANGED <<now, issued>>

----------------------------------------------------------------------------
(* The listings of InventoryRepository. A text is the sequence of its      *)
(* characters, a digit as its value 0..9 (as in the ids) and a letter as   *)
(* its ASCII code; a text column holds NULL or Some(text).                 *)

\* LIKE and str.lower() fold the case of the ASCII letters
Lower(c) == IF c \in 65..90 THEN c + 32 ELSE c

\* str.upper()
Upper(c) == IF c \in 97..122 THEN c - 32 ELSE c

LowerText(t) == [i \in 1..Len(t) |-> Lower(t[i])]

UpperText(t) == [i \in 1..Len(t) |-> Upper(t[i])]

\* text LIKE '%term%', for a term that holds no % and no _
Contains(text, term) ==
    \E i \in 0..(Len(text) - Len(term)) :
        \A j \in 1..Len(term) : Lower(text[i + j]) = Lower(term[j])

\* column LIKE ?: NULL, so not true, on a NULL column
Like(v, term) == v # NULL /\ Contains(v[1], term)

\* `if value:` on a str argument
Truthy(v) == v # NULL /\ v # Some(<<>>)

\* the comparison of two texts under the BINARY collation
LexLess(s, t) ==
    \E i \in 1..Len(t) :
        /\ \A j \in 1..(i - 1) : j <= Len(s) /\ s[j] = t[j]
        /\ i - 1 <= Len(s)
        /\ (i > Len(s) \/ s[i] < t[i])

\* the INTEGER columns of the listings
IntColumns == {"consumable", "row", "bin"}

\* a column of a listed row as the text LIKE and ORDER BY see; the ids are TEXT
TextOf(row, col) == IF col \in {"asset_id", "location_id"} THEN Some(row[col]) ELSE row[col]

\* x sorts before y in ORDER BY col ASC: NULL first, integers by value, texts
\* by their characters
Before(col, x, y) ==
    IF col \in IntColumns THEN x[col] < y[col]
    ELSE LET a == TextOf(x, col)
             b == TextOf(y, col)
         IN  IF a = NULL THEN b # NULL ELSE b # NULL /\ LexLess(a[1], b[1])

\* ORDER BY col ASC|DESC: the orders in which the engine may deliver the rows;
\* the order of rows with equal keys is not defined
Arrangements(rows, col, desc) ==
    {s \in [1..Cardinality(rows) -> rows] :
        \A i, j \in DOMAIN s :
            i < j => /\ s[i] # s[j]
                     /\ ~(IF desc THEN Before(col, s[i], s[j]) ELSE Before(col, s[j], s[i]))}

\* LIMIT ? OFFSET ? on top of an offset that counts one row too many
PageOffByOne(s, limit, offset) ==
    LET skip == IF offset < 0 THEN 0 ELSE offset + 1
        rest == SubSeq(s, skip + 1, Len(s))
    IN  IF limit < 0 \/ limit > Len(rest) THEN rest ELSE SubSeq(rest, 1, limit)

\* LIMIT ? OFFSET ?: SQLite takes a negative LIMIT as no limit and a negative
\* OFFSET as 0
Page(s, limit, offset) ==
    LET skip == IF offset < 0 THEN 0 ELSE offset
        rest == SubSeq(s, skip + 1, Len(s))
    IN  IF limit < 0 \/ limit > Len(rest) THEN rest ELSE SubSeq(rest, 1, limit)

\* "DESC" if order_dir.upper() == "DESC" else "ASC"
Descends(order_dir) == UpperText(order_dir) = <<68, 69, 83, 67>>

\* the (rows, total) of a listing, one for each order the engine may deliver
Listed(rows, order_col, order_dir, limit, offset) ==
    {[rows |-> Page(s, limit, offset), total |-> Cardinality(rows)] :
        s \in Arrangements(rows, order_col, Descends(order_dir))}

\* InventoryRepository.list_inventory_filtered: what the call may return
list_inventory_filtered(d, search, limit, offset, order_by, order_dir) ==
    LET searched == {"asset_id", "description", "manufacturer", "model",
                     "serial_number", "location_id"}
        items == {get_inventory(d, a)[1] : a \in DOMAIN d.Inventory}
        rows == {r \in items :
                    Truthy(search) => \E c \in searched : Like(TextOf(r, c), search[1])}
        order_col == IF order_by \in {"description", "asset_id", "location_id"}
                     THEN order_by ELSE "description"
    IN  Listed(rows, order_col, order_dir, limit, offset)

\* the row of the listing's join for item a: Inventory JOIN Location LEFT JOIN Vehicle
ViewRow(d, a) ==
    LET inv == d.Inventory[a]
        loc == d.Location[inv.location_id]
        veh == loc.vehicle_id
    IN  [asset_id |-> a, location_id |-> inv.location_id,
         description |-> inv.description, consumable |-> inv.consumable,
         manufacturer |-> inv.manufacturer, model |-> inv.model,
         serial_number |-> inv.serial_number,
         vehicle_name |-> IF veh = NULL THEN NULL ELSE d.Vehicle[veh].vehicle_name,
         vehicle_type |-> IF veh = NULL THEN NULL ELSE d.Vehicle[veh].vehicle_type,
         side |-> loc.side, row |-> loc.row, bin |-> loc.bin,
         last_audited_at |-> loc.last_audited_at]

\* the keys of `columns`
Columns ==
    {"asset_id", "location_id", "description", "consumable", "manufacturer", "model",
     "serial_number", "vehicle_name", "vehicle_type", "side", "row", "bin",
     "last_audited_at"}

\* the columns of the global clause
GlobalColumns ==
    {"asset_id", "location_id", "description", "manufacturer", "model",
     "serial_number", "vehicle_name", "vehicle_type", "side"}

\* filters.get(key)
Get(filters, key) == IF key \in DOMAIN filters THEN filters[key] ELSE NULL

\* filters.pop("global", None) or filters.pop("__global__", None)
global_term(filters) ==
    IF Truthy(Get(filters, "global")) THEN Get(filters, "global")
    ELSE Get(filters, "__global__")

\* the caller's mapping after the call: filters.pop("global", None) takes the
\* key "global" out of it, and `or` goes on to filters.pop("__global__", None)
\* when the first value is missing or empty
FiltersLeft(filters) ==
    LET popped == IF Truthy(Get(filters, "global")) THEN {"global"}
                  ELSE {"global", "__global__"}
    IN  [key \in (DOMAIN filters) \ popped |-> filters[key]]

\* `if not value: continue` of the filter loop: a row or bin value is an int,
\* any other value a str
Skipped(key, value) ==
    IF key \in {"row", "bin"} THEN value = 0 ELSE ~Truthy(value)

\* the condition the filter loop appends for a key of `columns`
Clause(row, key, value) ==
    IF key \in {"row", "bin"} THEN row[key] = value
    ELSE IF key = "consumable"
    THEN row[key] = (IF LowerText(value[1]) = <<121, 101, 115>> THEN 1 ELSE 0)
    ELSE Like(TextOf(row, key), value[1])

\* a filter loop that refuses every row when it meets a key outside `columns`
WhereStrict(row, filters) ==
    /\ Truthy(global_term(filters)) =>
            \E c \in GlobalColumns : Like(TextOf(row, c), global_term(filters)[1])
    /\ \A key \in (DOMAIN filters) \ {"global", "__global__"} :
            /\ key \in Columns
            /\ Skipped(key, filters[key]) \/ Clause(row, key, filters[key])

\* the WHERE clause of list_inventory_view_filtered on a row of the join: the
\* global clause and the clause of every filter in `columns` with a truthy
\* value, joined by AND; a key outside `columns` adds nothing
Where(row, filters) ==
    /\ Truthy(global_term(filters)) =>
            \E c \in GlobalColumns : Like(TextOf(row, c), global_term(filters)[1])
    /\ \A key \in (DOMAIN filters) \cap Columns :
            Skipped(key, filters[key]) \/ Clause(row, key, filters[key])

\* InventoryRepository.list_inventory_view_filtered: what the call may return
list_inventory_view_filtered(d, filters, order_by, order_dir, limit, offset) ==
    LET rows == {r \in {ViewRow(d, a) : a \in DOMAIN d.Inventory} : Where(r, filters)}
        order_col == IF order_by \in Columns THEN order_by ELSE "description"
    IN  Listed(rows, order_col, order_dir, limit, offset)

\* what the caller of a listing saw
Queried(op, q, result) ==
    lastOp' = [op |-> op, ok |-> TRUE, err |-> "none", rule |-> "none", id |-> NULL,
               hit |-> FALSE, value |-> Some(result), query |-> Some(q)]

----------------------------------------------------------------------------
(* Spec: the repositories driven by the UI thread *)

InitRepo ==
    /\ db = EmptyDb
    /\ now = 0
    /\ issued = [s \in IdStrings |-> 0]
    /\ lastOp = [op |-> "none", ok |-> TRUE, err |-> "none", rule |-> "none", id |-> NULL,
                 hit |-> FALSE, value |-> NULL, query |-> NULL]

InitAllocIdle ==
    /\ callerPc = [c \in 1..MaxCallers |-> "idle"]
    /\ callerId = [c \in 1..MaxCallers |-> NULL]
    /\ callerCalls = [c \in 1..MaxCallers |-> 0]
    /\ writer = 0

InitSchedIdle ==
    /\ timerActive = FALSE
    /\ lockHeld = FALSE
    /\ running = FALSE
    /\ wpc = [k \in 1..MaxTriggers |-> "idle"]
    /\ outcome = [k \in 1..MaxTriggers |-> "none"]
    /\ removed = [k \in 1..MaxTriggers |-> {}]
    /\ posted = <<>>
    /\ emitted = <<>>
    /\ nStarted = 0
    /\ files = EmptyTable
    /\ readers = {}
    /\ snapAt = [k \in 1..MaxTriggers |-> EmptyDb]

\* the scheduler constructed and never used
InitBackupOff ==
    /\ InitSchedIdle
    /\ enabled = FALSE
    /\ max_backups = 0
    /\ budget = 0

Init == InitRepo /\ InitAllocIdle /\ InitBackupOff

CreateVehicle ==
    \E n \in IdSample, ty \in {Some("Truck"), Some("Car")} :
        create_vehicle(n, ty, Some("Engine 1"), Some("VIN1"), 1, 0, 0)

CreateLocation ==
    \E n \in IdSample, v \in IdStrings \cup {NULL}, b \in {1, 2} :
        create_location(n, Some("Left"), 1, b, v)

CreateInventory ==
    \E n \in IdSample, l \in IdStrings :
        create_inventory(n, Some("Oil filter"), l, FALSE, NULL, NULL, NULL)

\* the updates of Spec name a row that exists; SpecFields has the updates of an
\* id that names no row
UpdateVehicle ==
    \E id \in DOMAIN db.Vehicle : update_vehicle(id, Some("Car"), NULL, NULL, NULL, NULL, NULL)

UpdateLocation ==
    \E id \in DOMAIN db.Location :
        \/ \E b \in {1, 2} : update_location(id, NULL, NULL, Some(b), NULL, NULL)
        \/ \E v \in IdStrings : update_location(id, NULL, NULL, NULL, v, NULL)

UpdateInventory ==
    \E id \in DOMAIN db.Inventory, l \in IdStrings : update_inventory(id, NULL, l, NULL, NULL, NULL, NULL)

DeleteVehicle == \E id \in IdStrings : delete_vehicle(id)

DeleteLocation == \E id \in IdStrings : delete_location(id)

DeleteInventory == \E id \in IdStrings : delete_inventory(id)

Next ==
    \/ (CreateVehicle /\ UNCHANGED <<allocVars, backupVars>>)
    \/ (CreateLocation /\ UNCHANGED <<allocVars, backupVars>>)
    \/ (CreateInventory /\ UNCHANGED <<allocVars, backupVars>>)
    \/ (UpdateVehicle /\ UNCHANGED <<allocVars, backupVars>>)
    \/ (UpdateLocation /\ UNCHANGED <<allocVars, backupVars>>)
    \/ (UpdateInventory /\ UNCHANGED <<allocVars, backupVars>>)
    \/ (DeleteVehicle /\ UNCHANGED <<allocVars, backupVars>>)
    \/ (DeleteLocation /\ UNCHANGED <<allocVars, backupVars>>)
    \/ (DeleteInventory /\ UNCHANGED <<allocVars, backupVars>>)

Spec == Init /\ [][Next]_vars

----------------------------------------------------------------------------
(* SpecAudit: items are created, moved between locations and audited, and  *)
(* locations and items are deleted                                         *)

ACreateLocation ==
    \E n \in IdSample : create_location(n, Some("Left"), 1, 1, NULL)

ACreateInventory ==
    \E n \in IdSample, l \in IdStrings :
        create_inventory(n, Some("Oil filter"), l, FALSE, NULL, NULL, NULL)

AMoveInventory ==
    \E id \in DOMAIN db.Inventory, l \in IdStrings :
        update_inventory(id, NULL, l, NULL, NULL, NULL, NULL)

ARecordAudit ==
    \E a \in IdStrings, to \in (DOMAIN db.Location) \cup {NULL} :
        /\ db.AuditSeq < MaxAudits
        /\ record_audit(a, Some("moved"), NULL, to, NULL, NULL, NULL)

NextAudit ==
    \/ (ACreateLocation /\ UNCHANGED <<allocVars, backupVars>>)
    \/ (ACreateInventory /\ UNCHANGED <<allocVars, backupVars>>)
    \/ (AMoveInventory /\ UNCHANGED <<allocVars, backupVars>>)
    \/ (ARecordAudit /\ UNCHANGED <<allocVars, backupVars>>)
    \/ (DeleteLocation /\ UNCHANGED <<allocVars, backupVars>>)
    \/ (DeleteInventory /\ UNCHANGED <<allocVars, backupVars>>)

SpecAudit == Init /\ [][NextAudit]_vars

----------------------------------------------------------------------------
(* SpecCreate: vehicles, locations and items are created with their        *)
(* required fields given, empty ('') or missing (None)                     *)

Names == {Some("Engine 1"), Some(""), NULL}

Sides == {Some("Left"), Some(""), NULL}

Descriptions == {Some("Oil filter"), Some(""), NULL}

NCreateVehicle ==
    \E n \in IdSample, name \in Names, vin \in {Some("VIN1"), Some("")} :
        create_vehicle(n, Some("Truck"), name, vin, 1, 0, 0)

NCreateLocation ==
    \E n \in IdSample, side \in Sides : create_location(n, side, 1, 1, NULL)

NCreateInventory ==
    \E n \in IdSample, description \in Descriptions, l \in IdStrings \cup {NULL} :
        create_inventory(n, description, l, FALSE, NULL, NULL, NULL)

NextCreate ==
    \/ (NCreateVehicle /\ UNCHANGED <<allocVars, backupVars>>)
    \/ (NCreateLocation /\ UNCHANGED <<allocVars, backupVars>>)
    \/ (NCreateInventory /\ UNCHANGED <<allocVars, backupVars>>)

SpecCreate == Init /\ [][NextCreate]_vars

----------------------------------------------------------------------------
(* SpecFields: a store holding one vehicle, one location of it and one     *)
(* item in that location, each made by its create call at second 0, is     *)
(* updated field by field while the clock runs                             *)

TheVehicle == Format08d(1)

TheLocation == Format08d(2)

TheItem == Format08d(IdMax)

\* the store after create_vehicle, create_location and create_inventory
PopulatedDb ==
    [EmptyDb EXCEPT
        !.GlobalId = {TheVehicle, TheLocation, TheItem},
        !.Vehicle = Put(EmptyTable, TheVehicle,
            [vehicle_type |-> Some("Truck"), vehicle_name |-> Some("Engine 1"),
             vin |-> Some("VIN1"), vehicle_number |-> 1, mileage |-> 0,
             last_service |-> 0, created_at |-> 0, updated_at |-> 0]),
        !.Location = Put(EmptyTable, TheLocation,
            [vehicle_id |-> TheVehicle, side |-> Some("Left"), row |-> 1, bin |-> 1,
             created_at |-> 0, updated_at |-> 0, last_audited_at |-> NULL]),
        !.Inventory = Put(EmptyTable, TheItem,
            [description |-> Some("Oil filter"), location_id |-> TheLocation,
             consumable |-> 0, manufacturer |-> NULL, model |-> NULL,
             serial_number |-> NULL, created_at |-> 0, updated_at |-> 0])]

InitFields ==
    /\ db = PopulatedDb
    /\ now = 0
    /\ issued = [s \in IdStrings |-> IF s \in PopulatedDb.GlobalId THEN 1 ELSE 0]
    /\ lastOp = [op |-> "create_inventory", ok |-> TRUE, err |-> "none", rule |-> "none",
                 id |-> TheItem, hit |-> TRUE,
                 value |-> get_inventory(PopulatedDb, TheItem), query |-> NULL]
    /\ InitAllocIdle
    /\ InitBackupOff

FUpdateVehicle ==
    \E id \in IdStrings, name \in {NULL, Some("Engine 2")}, mileage \in {NULL, Some(500)} :
        update_vehicle(id, NULL, name, NULL, NULL, mileage, NULL)

FUpdateLocation ==
    \E id \in IdStrings, side \in {NULL, Some("Right")}, row \in {NULL, Some(0)} :
        update_location(id, side, row, NULL, NULL, NULL)

FUpdateInventory ==
    \E id \in IdStrings, description \in {NULL, Some("Filter")},
       consumable \in {NULL, Some(TRUE)} :
        update_inventory(id, description, NULL, consumable, NULL, NULL, NULL)

NextFields ==
    \/ (FUpdateVehicle /\ UNCHANGED <<allocVars, backupVars>>)
    \/ (FUpdateLocation /\ UNCHANGED <<allocVars, backupVars>>)
    \/ (FUpdateInventory /\ UNCHANGED <<allocVars, backupVars>>)
    \/ (Tick /\ UNCHANGED <<allocVars, backupVars>>)

SpecFields == InitFields /\ [][NextFields]_vars

----------------------------------------------------------------------------
(* SpecTrail: the item of a populated store is audited, with the time of   *)
(* the audit left to the repository or passed by the caller, and its       *)
(* location is marked as audited, while the clock runs                     *)

\* a timestamp text the caller passes: the reading of some second
Timestamps == {Some(t) : t \in 0..MaxClock}

TRecordAudit ==
    \E a \in IdStrings, to \in {NULL, TheLocation}, audited_at \in Timestamps \cup {NULL} :
        /\ db.AuditSeq < MaxAudits
        /\ record_audit(a, Some("audited"), NULL, to, NULL, NULL, audited_at)

TMarkAudited ==
    \E l \in DOMAIN db.Location, last_audited_at \in Timestamps :
        update_location(l, NULL, NULL, NULL, NULL, last_audited_at)

NextTrail ==
    \/ (TRecordAudit /\ UNCHANGED <<allocVars, backupVars>>)
    \/ (TMarkAudited /\ UNCHANGED <<allocVars, backupVars>>)
    \/ (Tick /\ UNCHANGED <<allocVars, backupVars>>)

SpecTrail == InitFields /\ [][NextTrail]_vars

----------------------------------------------------------------------------
(* SpecGrid: locations created at, and moved to, rows and bins that are    *)
(* integers of either sign                                                 *)

RowSample == {0 - 1, 0, 1}

BinSample == {0 - 1, 1}

GCreateLocation ==
    \E n \in IdSample, row \in RowSample, bin \in BinSample :
        create_location(n, Some("Left"), row, bin, NULL)

GUpdateLocation ==
    \E id \in DOMAIN db.Location, row \in RowSample, bin \in BinSample :
        \/ update_location(id, NULL, Some(row), NULL, NULL, NULL)
        \/ update_location(id, NULL, NULL, Some(bin), NULL, NULL)

NextGrid ==
    \/ (GCreateLocation /\ UNCHANGED <<allocVars, backupVars>>)
    \/ (GUpdateLocation /\ UNCHANGED <<allocVars, backupVars>>)

SpecGrid == Init /\ [][NextGrid]_vars

----------------------------------------------------------------------------
(* SpecList: a store of one vehicle, two locations and up to MaxItems      *)
(* items is listed, whole and by pages, filtered and sorted                *)

\* "Oil", "oil", "Axe", "Oilco"
TextOil == <<79, 105, 108>>

TextLowerOil == <<111, 105, 108>>

TextAxe == <<65, 120, 101>>

TextOilco == <<79, 105, 108, 99, 111>>

\* the ids of the listed store: vehicle 1, locations 2 and 3, items from 4
ListedItem(i) == Format08d(3 + i)

\* item i as create_inventory stores it
ListedItemRow(i) ==
    [description |-> Some(CASE i % 3 = 1 -> TextOil
                            [] i % 3 = 2 -> TextLowerOil
                            [] OTHER -> TextAxe),
     location_id |-> IF i % 2 = 1 THEN Format08d(2) ELSE Format08d(3),
     consumable |-> i % 2,
     manufacturer |-> IF i % 3 = 0 THEN Some(TextOilco) ELSE NULL,
     model |-> NULL, serial_number |-> NULL, created_at |-> 0, updated_at |-> 0]

\* the store after create_vehicle, two create_location and n create_inventory:
\* a truck "E1", its location Left 0/1, a location Right 1/0 of no vehicle
ListDb(n) ==
    [EmptyDb EXCEPT
        !.GlobalId = {Format08d(k) : k \in 1..(3 + n)},
        !.Vehicle = Put(EmptyTable, Format08d(1),
            [vehicle_type |-> Some(<<84, 114, 117, 99, 107>>),
             vehicle_name |-> Some(<<69, 1>>), vin |-> Some(<<86, 1>>),
             vehicle_number |-> 1, mileage |-> 0, last_service |-> 0,
             created_at |-> 0, updated_at |-> 0]),
        !.Location = Put(Put(EmptyTable, Format08d(2),
            [vehicle_id |-> Format08d(1), side |-> Some(<<76, 101, 102, 116>>),
             row |-> 0, bin |-> 1, created_at |-> 0, updated_at |-> 0,
             last_audited_at |-> NULL]), Format08d(3),
            [vehicle_id |-> NULL, side |-> Some(<<82, 105, 103, 104, 116>>),
             row |-> 1, bin |-> 0, created_at |-> 0, updated_at |-> 0,
             last_audited_at |-> NULL]),
        !.Inventory = [a \in {ListedItem(i) : i \in 1..n} |->
            ListedItemRow(CHOOSE i \in 1..n : ListedItem(i) = a)]]

InitList ==
    /\ \E n \in 0..MaxItems : db = ListDb(n)
    /\ now = 0
    /\ issued = [s \in IdStrings |-> IF s \in db.GlobalId THEN 1 ELSE 0]
    /\ lastOp = [op |-> "none", ok |-> TRUE, err |-> "none", rule |-> "none", id |-> NULL,
                 hit |-> FALSE, value |-> NULL, query |-> NULL]
    /\ InitAllocIdle
    /\ InitBackupOff

\* order_dir: "ASC", "desc"
DirSample == {<<65, 83, 67>>, <<100, 101, 115, 99>>}

\* the search terms "OIL" and "4"
TermOil == <<79, 73, 76>>

TermFour == <<4>>

NoFilter == [key \in {} |-> NULL]

\* the filters of the whole listings; "owner" is no key of `columns`
FilterSample ==
    {NoFilter,
     [global |-> Some(TermOil)],
     [global |-> Some(TermFour)],
     [__global__ |-> Some(TermOil), global |-> Some(<<>>)],
     [row |-> 0],
     [row |-> 1],
     [bin |-> 1],
     [description |-> Some(TermOil)],
     [description |-> Some(TermOil), owner |-> Some(TermFour)],
     [global |-> Some(TermOil), row |-> 1],
     [consumable |-> Some(<<89, 101, 115>>)]}

\* limit and offset of the paged calls
Limits == (0 - 1)..MaxLimit

Offsets == 0..MaxLimit

ViewQuery(filters, order_by, order_dir, limit, offset) ==
    [filters |-> filters, order_by |-> order_by, order_dir |-> order_dir,
     limit |-> limit, offset |-> offset]

\* the calls of list_inventory_view_filtered: every filter with the default
\* order and paging (description, ASC, limit 100), the pages of the unfiltered
\* listing by description and by row in both directions, the pages of a
\* searched listing, and the sort key "owner", which is no key of `columns`
ViewQueries ==
    {ViewQuery(f, "description", <<65, 83, 67>>, 100, 0) : f \in FilterSample}
    \cup {ViewQuery(NoFilter, o, dir, l, k) :
            o \in {"description", "row"}, dir \in DirSample, l \in Limits, k \in Offsets}
    \cup {ViewQuery([global |-> Some(TermOil)], "description", <<65, 83, 67>>, l, k) :
            l \in Limits, k \in Offsets}
    \cup {ViewQuery(NoFilter, "owner", dir, 100, 0) : dir \in DirSample}

ItemQuery(search, limit, offset, order_by, order_dir) ==
    [search |-> search, order_by |-> order_by, order_dir |-> order_dir,
     limit |-> limit, offset |-> offset]

\* the calls of list_inventory_filtered: the pages of the whole and of a
\* searched listing, and the sort keys location_id and "row", which is no
\* column of its allow-list
ItemQueries ==
    {ItemQuery(z, l, k, "description", <<65, 83, 67>>) :
        z \in {Some(<<>>), Some(TermOil)}, l \in Limits, k \in Offsets}
    \cup {ItemQuery(Some(<<>>), 500, 0, o, dir) :
            o \in {"location_id", "row"}, dir \in DirSample}

\* a call as its caller sees it afterwards: the arguments as they were passed,
\* the mapping object as the call left it, and, for a call repeated with the
\* same object, the filters the object held before the first call
Held(q, first) ==
    [filters |-> q.filters, order_by |-> q.order_by, order_dir |-> q.order_dir,
     limit |-> q.limit, offset |-> q.offset,
     left |-> FiltersLeft(q.filters), first |-> first]

ListView ==
    \E q \in ViewQueries :
        \E result \in list_inventory_view_filtered(db, q.filters, q.order_by, q.order_dir,
                                                   q.limit, q.offset) :
            /\ Queried("list_inventory_view_filtered", Held(q, NULL), result)
            /\ UNCHANGED <<db, now, issued>>

\* the caller of the last listing calls again with the same mapping object and
\* the same other arguments
ListViewAgain ==
    /\ lastOp.op = "list_inventory_view_filtered"
    /\ lastOp.query[1].first = NULL
    /\ LET q == lastOp.query[1]
       IN  \E result \in list_inventory_view_filtered(db, q.left, q.order_by, q.order_dir,
                                                      q.limit, q.offset) :
            /\ Queried("list_inventory_view_filtered",
                       Held([q EXCEPT !.filters = q.left], Some(q.filters)), result)
            /\ UNCHANGED <<db, now, issued>>

ListItems ==
    \E q \in ItemQueries :
        \E result \in list_inventory_filtered(db, q.search, q.limit, q.offset,
                                              q.order_by, q.order_dir) :
            /\ Queried("list_inventory_filtered", q, result)
            /\ UNCHANGED <<db, now, issued>>

NextList ==
    \/ (ListView /\ UNCHANGED <<allocVars, backupVars>>)
    \/ (ListViewAgain /\ UNCHANGED <<allocVars, backupVars>>)
    \/ (ListItems /\ UNCHANGED <<allocVars, backupVars>>)

SpecList == InitList /\ [][NextList]_vars

----------------------------------------------------------------------------
(* SpecAlloc: generate_global_id called concurrently, one connection per caller *)

\* a caller enters generate_global_id
AllocCall(c) ==
    /\ callerPc[c] = "idle"
    /\ callerCalls[c] < MaxCalls
    /\ callerPc' = [callerPc EXCEPT ![c] = "loop"]
    /\ callerId' = [callerId EXCEPT ![c] = NULL]
    /\ UNCHANGED <<db, now, issued, lastOp, callerCalls, writer>>

\* conn.execute("INSERT INTO GlobalId ...") with candidate n. The store admits one
\* write transaction at a time; the PRIMARY KEY is checked by the store itself.
AllocInsert(c) ==
    /\ callerPc[c] = "loop"
    /\ writer = 0
    /\ \E n \in IdSample :
        LET g == generate_global_id(db, n)
        IN  \/ /\ g.r.ok
               /\ writer' = c
               /\ callerId' = [callerId EXCEPT ![c] = g.id]
               /\ callerPc' = [callerPc EXCEPT ![c] = "commit"]
            \/ /\ ~g.r.ok       \* sqlite3.IntegrityError: rollback(), continue
               /\ UNCHANGED <<writer, callerId, callerPc>>
    /\ UNCHANGED <<db, now, issued, lastOp, callerCalls>>

\* The INSERT finds the store locked by another connection's open write
\* transaction until the busy timeout ends: sqlite3.OperationalError, which
\* generate_global_id does not catch; the call raises and returns no id.
AllocBusy(c) ==
    /\ callerPc[c] = "loop"
    /\ writer \notin {0, c}
    /\ callerPc' = [callerPc EXCEPT ![c] = "idle"]
    /\ callerCalls' = [callerCalls EXCEPT ![c] = @ + 1]
    /\ UNCHANGED <<db, now, issued, lastOp, callerId, writer>>

\* conn.commit(); return id_str
AllocCommit(c) ==
    /\ callerPc[c] = "commit"
    /\ writer = c
    /\ db' = [db EXCEPT !.GlobalId = @ \cup {callerId[c]}]
    /\ writer' = 0
    /\ issued' = Issue(callerId[c])
    /\ callerPc' = [callerPc EXCEPT ![c] = "idle"]
    /\ callerCalls' = [callerCalls EXCEPT ![c] = @ + 1]
    /\ UNCHANGED <<now, lastOp, callerId>>

NextAlloc ==
    \E c \in 1..MaxCallers :
        \/ (AllocCall(c) /\ UNCHANGED backupVars)
        \/ (AllocInsert(c) /\ UNCHANGED backupVars)
        \/ (AllocBusy(c) /\ UNCHANGED backupVars)
        \/ (AllocCommit(c) /\ UNCHANGED backupVars)

SpecAlloc == Init /\ [][NextAlloc]_vars

----------------------------------------------------------------------------
(* The backup scheduler: backup.py                                         *)
(* The UI thread runs start, stop, manual_backup, the timer's timeout slot *)
(* and the callables its event loop is handed. Each backup runs            *)
(* _run_backup on a threading.Thread of its own, statement by statement.   *)

Workers == 1..MaxTriggers

RetentionSample == (0 - 1)..MaxRetention

\* a lock whose acquire succeeds although it is held
LockAcquireAlways == TRUE

\* self._lock.acquire(blocking=False): True exactly when the lock was free
LockAcquire == ~lockHeld

Signal(sig, k, thread) == [sig |-> sig, k |-> k, thread |-> thread]

\* a callable queued by worker k is waiting to be run
Pending(k) == \E i \in 1..Len(posted) : posted[i].k = k

\* the started signal is not emitted
EmitStartedNever(k) == emitted

\* self.backup_started.emit(), on the thread running _trigger_backup
EmitStarted(k) == Append(emitted, Signal("started", k, "ui"))

\* BackupManager._trigger_backup, which runs on the UI thread only
trigger_backup ==
    /\ budget > 0
    /\ budget' = budget - 1
    /\ IF ~enabled
       THEN UNCHANGED <<lockHeld, running, emitted, nStarted, wpc>>
       ELSE IF ~LockAcquire
       THEN UNCHANGED <<lockHeld, running, emitted, nStarted, wpc>>
       ELSE /\ lockHeld' = TRUE
            /\ running' = TRUE
            /\ emitted' = EmitStarted(nStarted + 1)
            /\ nStarted' = nStarted + 1
            /\ wpc' = [wpc EXCEPT ![nStarted + 1] = "copy"]
    /\ UNCHANGED <<enabled, max_backups, timerActive, outcome, removed, posted, dirVars>>

\* BackupManager.start
Start ==
    /\ ~timerActive
    /\ timerActive' = enabled
    /\ UNCHANGED <<enabled, max_backups, lockHeld, running, wpc, outcome, removed,
                   posted, emitted, nStarted, budget, dirVars>>

\* BackupManager.stop
Stop ==
    /\ timerActive
    /\ timerActive' = FALSE
    /\ UNCHANGED <<enabled, max_backups, lockHeld, running, wpc, outcome, removed,
                   posted, emitted, nStarted, budget, dirVars>>

\* timer.timeout -> _trigger_backup
TimerFire == timerActive /\ trigger_backup

\* BackupManager.manual_backup
ManualBackup == trigger_backup

\* a slice taken from the wrong end, backups[max_backups:]: the newest go
prune_candidates_newest(names, m) ==
    IF m <= 0 \/ Cardinality(names) <= m
    THEN {}
    ELSE {t \in names : Cardinality({u \in names : u < t}) >= m}

\* a prune without the test of max_backups <= 0
prune_candidates_unguarded(names, m) ==
    IF Cardinality(names) <= m
    THEN {}
    ELSE {t \in names : Cardinality({u \in names : u > t}) >= m}

\* a slice that keeps one file more than max_backups
prune_candidates_keep_extra(names, m) ==
    IF m <= 0 \/ Cardinality(names) <= m
    THEN {}
    ELSE {t \in names : Cardinality({u \in names : u > t}) > m}

\* backups[:-max_backups] of the sorted glob: all but the max_backups newest names
prune_candidates(names, m) ==
    IF m <= 0 \/ Cardinality(names) <= m
    THEN {}
    ELSE {t \in names : Cardinality({u \in names : u > t}) >= m}

WorkerUnchanged ==
    UNCHANGED <<enabled, max_backups, timerActive, emitted, nStarted, budget>>

\* backup_database up to the start of src.backup(dst): the name is taken from the
\* clock, the copy takes its read lock on the store and starts to write the
\* destination file (an existing file of that name is written over). Or the
\* call raises before the destination exists.
W_CopyBegin(k) ==
    /\ wpc[k] = "copy"
    /\ \/ /\ wpc' = [wpc EXCEPT ![k] = "copying"]
          /\ readers' = readers \cup {k}
          /\ snapAt' = [snapAt EXCEPT ![k] = db]
          /\ files' = Put(files, now,
                [by |-> (IF now \in DOMAIN files THEN files[now].by ELSE <<>>) \o <<k>>,
                 complete |-> FALSE,
                 data |-> [db EXCEPT !.Inventory = EmptyTable, !.Audit = EmptyTable]])
          /\ UNCHANGED outcome
       \/ /\ wpc' = [wpc EXCEPT ![k] = "except"]
          /\ outcome' = [outcome EXCEPT ![k] = "copy_failed"]
          /\ UNCHANGED <<files, readers, snapAt>>
    /\ UNCHANGED <<lockHeld, running, removed, posted>>
    /\ WorkerUnchanged

\* the file this worker's copy is writing
CopyTarget(k) == CHOOSE t \in DOMAIN files : ~files[t].complete /\ files[t].by[Len(files[t].by)] = k

\* the rest of src.backup(dst): the remaining tables are read, the destination is
\* committed and the read lock given up. Or the copy raises midway (disk full)
\* and leaves the destination file unfinished.
W_CopyEnd(k) ==
    /\ wpc[k] = "copying"
    /\ readers' = readers \ {k}
    /\ \/ /\ wpc' = [wpc EXCEPT ![k] = "prune"]
          /\ files' = [files EXCEPT ![CopyTarget(k)] =
                [@ EXCEPT !.complete = TRUE,
                          !.data = [@ EXCEPT !.Inventory = db.Inventory,
                                             !.Audit = db.Audit]]]
          /\ UNCHANGED outcome
       \/ /\ wpc' = [wpc EXCEPT ![k] = "except"]
          /\ outcome' = [outcome EXCEPT ![k] = "copy_failed"]
          /\ UNCHANGED files
    /\ UNCHANGED <<lockHeld, running, removed, posted, snapAt>>
    /\ WorkerUnchanged

\* prune_backups: each unlink may fail with OSError and is then skipped; or the
\* call itself raises
W_Prune(k) ==
    /\ wpc[k] = "prune"
    /\ \/ \E failing \in SUBSET prune_candidates(DOMAIN files, max_backups) :
            LET gone == prune_candidates(DOMAIN files, max_backups) \ failing
            IN  /\ files' = [t \in (DOMAIN files) \ gone |-> files[t]]
                /\ removed' = [removed EXCEPT ![k] = gone]
                /\ wpc' = [wpc EXCEPT ![k] = "post"]
                /\ outcome' = [outcome EXCEPT ![k] = "ok"]
       \/ /\ wpc' = [wpc EXCEPT ![k] = "except"]
          /\ outcome' = [outcome EXCEPT ![k] = "prune_failed"]
          /\ UNCHANGED <<files, removed>>
    /\ UNCHANGED <<lockHeld, running, posted, readers, snapAt>>
    /\ WorkerUnchanged

\* QtCore.QTimer.singleShot(0, lambda: self._notify_success(backup_path, removed))
W_PostSuccess(k) ==
    /\ wpc[k] = "post"
    /\ posted' = Append(posted, [fn |-> "success", k |-> k])
    /\ wpc' = [wpc EXCEPT ![k] = "release"]
    /\ UNCHANGED <<lockHeld, running, outcome, removed, dirVars>>
    /\ WorkerUnchanged

\* except Exception: logger.exception(...);
\* QtCore.QTimer.singleShot(0, lambda: self._notify_failure(str(exc)))
W_Except(k) ==
    /\ wpc[k] = "except"
    /\ posted' = Append(posted, [fn |-> "failure", k |-> k])
    /\ wpc' = [wpc EXCEPT ![k] = "release"]
    /\ UNCHANGED <<lockHeld, running, outcome, removed, dirVars>>
    /\ WorkerUnchanged

\* a release placed at the end of the try body: it is skipped when the body raised
W_ReleaseUnlessFailed(k) ==
    /\ wpc[k] = "release"
    /\ lockHeld' = IF outcome[k] = "ok" THEN FALSE ELSE lockHeld
    /\ wpc' = [wpc EXCEPT ![k] = "clear"]
    /\ UNCHANGED <<running, outcome, removed, posted, dirVars>>
    /\ WorkerUnchanged

\* finally: self._lock.release()
W_Release(k) ==
    /\ wpc[k] = "release"
    /\ lockHeld' = FALSE
    /\ wpc' = [wpc EXCEPT ![k] = "clear"]
    /\ UNCHANGED <<running, outcome, removed, posted, dirVars>>
    /\ WorkerUnchanged

\* the callables queued by worker k are no longer in the queue
Without(q, k) ==
    LET keep == {i \in 1..Len(q) : q[i].k # k}
        nth(j) == CHOOSE i \in keep : Cardinality({h \in keep : h < i}) = j - 1
    IN  [j \in 1..Cardinality(keep) |-> q[nth(j)]]

\* finally: self._running = False; then the thread ends.
\* QTimer.singleShot(0, f) with a plain callable f queues f for the event loop
\* of the thread that calls singleShot. The caller here is the worker, a
\* threading.Thread that never runs an event loop: when the thread ends nothing
\* is left to run f. Both outcomes of the hand-off are kept in the model: the
\* callable stays queued until the UI thread runs it (Dispatch), or it is
\* discarded unrun with the thread.
W_Clear(k) ==
    /\ wpc[k] = "clear"
    /\ running' = FALSE
    /\ wpc' = [wpc EXCEPT ![k] = "done"]
    /\ \/ UNCHANGED posted
       \/ Pending(k) /\ posted' = Without(posted, k)
    /\ UNCHANGED <<lockHeld, outcome, removed, dirVars>>
    /\ WorkerUnchanged

\* the worker emits the completion signal itself instead of queueing a callable
NotifyOnWorker(c) == Signal(IF c.fn = "success" THEN "finished" ELSE "failed", c.k, "worker")

\* _notify_success / _notify_failure run by the event loop that dispatches the
\* queued callable: backup_finished.emit(...) / backup_failed.emit(...)
Notify(c) == Signal(IF c.fn = "success" THEN "finished" ELSE "failed", c.k, "ui")

\* The UI thread's event loop runs the oldest queued callable.
Dispatch ==
    /\ posted # <<>>
    /\ emitted' = Append(emitted, Notify(Head(posted)))
    /\ posted' = Tail(posted)
    /\ UNCHANGED <<enabled, max_backups, timerActive, lockHeld, running, wpc, outcome,
                   removed, nStarted, budget, dirVars>>

WorkerStep(k) ==
    \/ W_CopyBegin(k)
    \/ W_CopyEnd(k)
    \/ W_Prune(k)
    \/ W_PostSuccess(k)
    \/ W_Except(k)
    \/ W_Release(k)
    \/ W_Clear(k)

InitBackup ==
    /\ InitSchedIdle
    /\ enabled \in BOOLEAN
    /\ max_backups \in RetentionSample
    /\ budget = MaxTriggers

InitSched == InitRepo /\ InitAllocIdle /\ InitBackup

\* the scheduler's operations and the steps of its worker threads
SchedulerStep ==
    \/ (Start /\ UNCHANGED <<repoVars, allocVars>>)
    \/ (Stop /\ UNCHANGED <<repoVars, allocVars>>)
    \/ (TimerFire /\ UNCHANGED <<repoVars, allocVars>>)
    \/ (ManualBackup /\ UNCHANGED <<repoVars, allocVars>>)
    \/ (Dispatch /\ UNCHANGED <<repoVars, allocVars>>)
    \/ \E k \in Workers :
        \/ (W_CopyBegin(k) /\ UNCHANGED <<repoVars, allocVars>>)
        \/ (W_CopyEnd(k) /\ UNCHANGED <<repoVars, allocVars>>)
        \/ (W_Prune(k) /\ UNCHANGED <<repoVars, allocVars>>)
        \/ (W_PostSuccess(k) /\ UNCHANGED <<repoVars, allocVars>>)
        \/ (W_Except(k) /\ UNCHANGED <<repoVars, allocVars>>)
        \/ (W_Release(k) /\ UNCHANGED <<repoVars, allocVars>>)
        \/ (W_Clear(k) /\ UNCHANGED <<repoVars, allocVars>>)

NextBackup ==
    \/ SchedulerStep
    \/ (Tick /\ UNCHANGED <<allocVars, backupVars>>)

SpecBackup == InitSched /\ [][NextBackup]_vars

\* The scheduler within one second of the clock (the clock only names the
\* backup files), with the fairness of the threads' scheduling: every started
\* worker thread keeps being scheduled until it ends.
SpecBackupFair ==
    /\ InitSched
    /\ [][SchedulerStep]_vars
    /\ \A k \in Workers : WF_vars(WorkerStep(k) /\ UNCHANGED <<repoVars, allocVars>>)

----------------------------------------------------------------------------
(* SpecRetention: one manual backup, run on a backup directory that holds  *)
(* the files of the backups of earlier runs of the program                 *)

\* a backup file written by a backup of an earlier run (worker 0)
EarlierBackup == [by |-> <<0>>, complete |-> TRUE, data |-> EmptyDb]

\* the directory holds n files named by the clock readings 0..n-1; the clock
\* reads the second of the newest of them or the second after it
InitDirectory ==
    \E n \in 0..MaxFiles :
        /\ db = EmptyDb
        /\ now \in {n - 1, n} \ {0 - 1}
        /\ issued = [s \in IdStrings |-> 0]
        /\ lastOp = [op |-> "none", ok |-> TRUE, err |-> "none", rule |-> "none",
                     id |-> NULL, hit |-> FALSE, value |-> NULL, query |-> NULL]
        /\ InitAllocIdle
        /\ timerActive = FALSE
        /\ lockHeld = FALSE
        /\ running = FALSE
        /\ wpc = [k \in 1..MaxTriggers |-> "idle"]
        /\ outcome = [k \in 1..MaxTriggers |-> "none"]
        /\ removed = [k \in 1..MaxTriggers |-> {}]
        /\ posted = <<>>
        /\ emitted = <<>>
        /\ nStarted = 0
        /\ files = [t \in 0..(n - 1) |-> EarlierBackup]
        /\ readers = {}
        /\ snapAt = [k \in 1..MaxTriggers |-> EmptyDb]
        /\ enabled = TRUE
        /\ max_backups \in (0 - 1)..MaxKept
        /\ budget = 1

NextRetention ==
    \/ (ManualBackup /\ UNCHANGED <<repoVars, allocVars>>)
    \/ (Dispatch /\ UNCHANGED <<repoVars, allocVars>>)
    \/ \E k \in Workers :
        \/ (W_CopyBegin(k) /\ UNCHANGED <<repoVars, allocVars>>)
        \/ (W_CopyEnd(k) /\ UNCHANGED <<repoVars, allocVars>>)
        \/ (W_Prune(k) /\ UNCHANGED <<repoVars, allocVars>>)
        \/ (W_PostSuccess(k) /\ UNCHANGED <<repoVars, allocVars>>)
        \/ (W_Except(k) /\ UNCHANGED <<repoVars, allocVars>>)
        \/ (W_Release(k) /\ UNCHANGED <<repoVars, allocVars>>)
        \/ (W_Clear(k) /\ UNCHANGED <<repoVars, allocVars>>)

SpecRetention == InitDirectory /\ [][NextRetention]_vars

----------------------------------------------------------------------------
(* SpecSnapshot: one backup cycle while the UI thread creates and deletes  *)
(* locations and inventory items                                           *)

InitSnapshot ==
    /\ InitRepo
    /\ InitAllocIdle
    /\ InitSchedIdle
    /\ enabled = TRUE
    /\ max_backups = 0
    /\ budget = 1

UiCreateLocation == \E n \in IdSample : create_location(n, Some("Left"), 1, 1, NULL)

UiCreateInventory ==
    \E n \in IdSample, l \in DOMAIN db.Location :
        create_inventory(n, Some("Oil filter"), l, FALSE, NULL, NULL, NULL)

UiDeleteInventory == \E id \in DOMAIN db.Inventory : delete_inventory(id)

UiDeleteLocation == \E id \in DOMAIN db.Location : delete_location(id)

NextSnapshot ==
    \/ (UiCreateLocation /\ UNCHANGED <<allocVars, backupVars>>)
    \/ (UiCreateInventory /\ UNCHANGED <<allocVars, backupVars>>)
    \/ (UiDeleteInventory /\ UNCHANGED <<allocVars, backupVars>>)
    \/ (UiDeleteLocation /\ UNCHANGED <<allocVars, backupVars>>)
    \/ (ManualBackup /\ UNCHANGED <<repoVars, allocVars>>)
    \/ (Dispatch /\ UNCHANGED <<repoVars, allocVars>>)
    \/ \E k \in Workers :
        \/ (W_CopyBegin(k) /\ UNCHANGED <<repoVars, allocVars>>)
        \/ (W_CopyEnd(k) /\ UNCHANGED <<repoVars, allocVars>>)
        \/ (W_Prune(k) /\ UNCHANGED <<repoVars, allocVars>>)
        \/ (W_PostSuccess(k) /\ UNCHANGED <<repoVars, allocVars>>)
        \/ (W_Except(k) /\ UNCHANGED <<repoVars, allocVars>>)
        \/ (W_Release(k) /\ UNCHANGED <<repoVars, allocVars>>)
        \/ (W_Clear(k) /\ UNCHANGED <<repoVars, allocVars>>)

SpecSnapshot == InitSnapshot /\ [][NextSnapshot]_vars

----------------------------------------------------------------------------
(* Claims about the backup scheduler *)

\* a backup is in flight from the launch of its worker until the worker has
\* released the lock
InFlight(k) == wpc[k] \in {"copy", "copying", "prune", "post", "except", "release"}

Completions(k) ==
    {i \in 1..Len(emitted) : emitted[i].k = k /\ emitted[i].sig \in {"finished", "failed"}}

Failed(k) == outcome[k] \in {"copy_failed", "prune_failed"}

TriggerStep == budget' # budget

\* C1: at most one backup is in flight in every reachable state, and a
\* _trigger_backup call made while the lock is held changes nothing: it takes
\* no lock, launches no worker, emits and queues nothing.
C1_OneInFlightTriggerDropped ==
    /\ [](Cardinality({k \in Workers : InFlight(k)}) <= 1)
    /\ [][(TriggerStep /\ lockHeld) =>
            UNCHANGED <<lockHeld, running, wpc, outcome, removed, posted, emitted,
                        nStarted, timerActive, dirVars>>]_vars

\* more triggers have been made than backups started (one was dropped) and a
\* backup is in flight
C1_Witness ==
    /\ enabled
    /\ MaxTriggers - budget > nStarted
    /\ \E k \in Workers : InFlight(k)

\* C2 (as claimed): a backup that has started and whose worker has ended, with
\* no completion callable still queued, has had exactly one of finished and failed
\* emitted for it; no backup ever has two; none is emitted for a backup that did
\* not start.
C2_ExactlyOneCompletion ==
    \A k \in Workers :
        /\ Cardinality(Completions(k)) <= 1
        /\ Completions(k) # {} => k <= nStarted
        /\ (wpc[k] = "done" /\ ~Pending(k)) => Cardinality(Completions(k)) = 1

\* C3: whenever the lock is held it is released again, whether the copy or the
\* prune succeeded or raised.
C3_LockEventuallyReleased == lockHeld ~> ~lockHeld

\* a backup whose copy raised has released the lock and a later trigger has
\* started the next backup
C3_Witness ==
    \E k \in Workers :
        /\ outcome[k] = "copy_failed"
        /\ wpc[k] = "done"
        /\ nStarted > k

\* C4 (amended): a _trigger_backup call made while the lock is free and backups
\* are enabled takes the lock, sets _running, emits started and launches a worker.
C4_IdleEnabledTriggerStarts ==
    [][(TriggerStep /\ ~lockHeld /\ enabled) =>
        /\ lockHeld'
        /\ running'
        /\ nStarted' = nStarted + 1
        /\ wpc[nStarted'] = "idle" /\ wpc'[nStarted'] = "copy"
        /\ emitted' = Append(emitted, Signal("started", nStarted', "ui"))]_vars

\* a trigger made while Idle has just started a backup
C4_Witness ==
    /\ nStarted > 0
    /\ lockHeld
    /\ running
    /\ wpc[nStarted] = "copy"
    /\ emitted[Len(emitted)] = Signal("started", nStarted, "ui")

\* C4 (as claimed): every _trigger_backup call made while the lock is free
\* starts a backup.
C4_IdleTriggerStarts ==
    [][(TriggerStep /\ ~lockHeld) =>
        /\ lockHeld'
        /\ running'
        /\ nStarted' = nStarted + 1
        /\ wpc'[nStarted'] = "copy"
        /\ emitted' = Append(emitted, Signal("started", nStarted', "ui"))]_vars

ForeignKeysHold(d) ==
    /\ \A a \in DOMAIN d.Inventory : d.Inventory[a].location_id \in DOMAIN d.Location
    /\ \A l \in DOMAIN d.Location :
         d.Location[l].vehicle_id = NULL \/ d.Location[l].vehicle_id \in DOMAIN d.Vehicle

\* C5: every finished backup file holds the committed store as it was at one
\* instant, the one at which its copy began, and in it every inventory row's
\* location id resolves to a location row of the same file.
C5_BackupIsOneInstant ==
    \A t \in DOMAIN files :
        files[t].complete =>
            /\ files[t].data = snapAt[files[t].by[Len(files[t].by)]]
            /\ ForeignKeysHold(files[t].data)

\* a finished backup file holds inventory, and the UI thread has created further
\* items since the copy
C5_Witness ==
    \E t \in DOMAIN files :
        /\ files[t].complete
        /\ DOMAIN files[t].data.Inventory # {}
        /\ DOMAIN files[t].data.Inventory # DOMAIN db.Inventory
        /\ lastOp.op = "create_inventory"

\* C6 (as claimed): a backup whose copy or prune raised, once its worker has
\* ended and its callable is no longer queued, has been reported by failed and
\* never by finished.
C6_FailureReportedByFailed ==
    \A k \in Workers :
        (Failed(k) /\ wpc[k] = "done" /\ ~Pending(k)) =>
            /\ \E i \in 1..Len(emitted) : emitted[i] = Signal("failed", k, "ui")
            /\ \A i \in 1..Len(emitted) : emitted[i].k = k => emitted[i].sig # "finished"

----------------------------------------------------------------------------
(* Claims about the identifier allocator *)

\* C8: whatever the interleaving of concurrent generate_global_id calls on one
\* store, no identifier is returned twice, and every identifier returned is a
\* string of exactly 8 decimal digits.
C8_DistinctEightDigitIds ==
    \A s \in DOMAIN issued :
        /\ issued[s] <= 1
        /\ issued[s] >= 1 => IsEightDigits(s)

\* two connections have each been handed an id, the smallest and the largest
\* candidate among them, and two calls are in progress at once
C8_Witness ==
    \E c1, c2 \in 1..MaxCallers :
        /\ c1 # c2
        /\ callerPc[c1] = "commit"
        /\ callerPc[c2] = "loop"
        /\ issued[Format08d(1)] = 1
        /\ issued[Format08d(IdMax)] = 1

EntityIds(d) == (DOMAIN d.Vehicle) \cup (DOMAIN d.Location) \cup (DOMAIN d.Inventory)

\* C9: every identifier ever issued is still in the allocation record set,
\* whatever was deleted since, and none has been issued twice.
C9_IssuedIdsStayRecorded ==
    \A s \in DOMAIN issued :
        /\ issued[s] <= 1
        /\ issued[s] >= 1 => s \in db.GlobalId

\* a vehicle row has just been deleted and its identifier is still recorded
C9_Witness ==
    /\ lastOp.op = "delete_vehicle"
    /\ lastOp.hit
    /\ lastOp.id \notin EntityIds(db)
    /\ lastOp.id \in db.GlobalId
    /\ issued[lastOp.id] = 1

\* C10: the ids of Vehicles, Locations and InventoryItems are pairwise distinct
\* across the three kinds, and each is in the allocation record set.
C10_EntityIdsUniqueAndAllocated ==
    /\ (DOMAIN db.Vehicle) \cap (DOMAIN db.Location) = {}
    /\ (DOMAIN db.Vehicle) \cap (DOMAIN db.Inventory) = {}
    /\ (DOMAIN db.Location) \cap (DOMAIN db.Inventory) = {}
    /\ EntityIds(db) \subseteq db.GlobalId

\* a vehicle, a location and an inventory item exist together
C10_Witness ==
    /\ DOMAIN db.Vehicle # {}
    /\ DOMAIN db.Location # {}
    /\ DOMAIN db.Inventory # {}

\* C11 (as claimed): a generate_global_id call that is in its loop with the store
\* free can always end, by returning an identifier or by raising: in particular
\* when every identifier of the namespace is recorded.
C11_AllocateCanEnd ==
    \A c \in 1..MaxCallers :
        (callerPc[c] = "loop" /\ writer = 0) =>
            ENABLED (AllocInsert(c) /\ callerPc'[c] # "loop")

----------------------------------------------------------------------------
(* Claims about the store's constraints *)

\* C12: in every reachable state every inventory row's location id is the id of
\* a location row, and every location row's vehicle id is NULL or the id of a
\* vehicle row.
C12_ReferencesResolve ==
    /\ \A a \in DOMAIN db.Inventory : db.Inventory[a].location_id \in DOMAIN db.Location
    /\ \A l \in DOMAIN db.Location :
         db.Location[l].vehicle_id = NULL \/ db.Location[l].vehicle_id \in DOMAIN db.Vehicle

\* an update has just been rejected while an item sits in a location that a
\* vehicle owns
C12_Witness ==
    /\ lastOp.op \in {"update_location", "update_inventory"}
    /\ ~lastOp.ok
    /\ \E a \in DOMAIN db.Inventory :
         db.Location[db.Inventory[a].location_id].vehicle_id \in DOMAIN db.Vehicle

Referenced(d, id) == \E a \in DOMAIN d.Inventory : d.Inventory[a].location_id = id

\* C13: a delete_location call on a location that an inventory row references
\* raises IntegrityError and leaves every table as it was.
C13_ReferencedDeleteRejected ==
    [][\A id \in IdStrings :
        (lastOp'.id = id /\ Referenced(db, id) /\ delete_location(id)) =>
            /\ ~lastOp'.ok
            /\ lastOp'.err = "IntegrityError"
            /\ db' = db]_vars

\* delete_location has just been rejected on a location that holds an item
C13_Witness ==
    /\ lastOp.op = "delete_location"
    /\ ~lastOp.ok
    /\ Referenced(db, lastOp.id)

\* C14 (as claimed): a delete_location call on an existing location that no
\* inventory row references succeeds and removes the location row.
C14_UnreferencedDeleteSucceeds ==
    [][\A id \in IdStrings :
        (delete_location(id) /\ id \in DOMAIN db.Location /\ ~Referenced(db, id)) =>
            /\ lastOp'.ok
            /\ id \notin DOMAIN db'.Location]_vars

\* C15: a delete_vehicle call on a vehicle that owns locations succeeds and
\* removes the vehicle row only: list_locations() returns the same location ids,
\* each row as it was except that the vehicle_id of the owned ones is NULL, and
\* the inventory and audit rows are as they were.
C15_VehicleDeleteKeepsLocations ==
    [][\A id \in IdStrings :
        (/\ lastOp'.id = id
         /\ id \in DOMAIN db.Vehicle
         /\ list_locations(db, id) # {}
         /\ delete_vehicle(id)) =>
            /\ lastOp'.ok
            /\ DOMAIN db'.Vehicle = (DOMAIN db.Vehicle) \ {id}
            /\ list_locations(db', NULL) = list_locations(db, NULL)
            /\ \A l \in DOMAIN db.Location :
                 db'.Location[l] =
                    [db.Location[l] EXCEPT
                        !.vehicle_id = IF @ = id THEN NULL ELSE @]
            /\ db'.Inventory = db.Inventory
            /\ db'.Audit = db.Audit]_vars

\* a vehicle has just been deleted; a location it owned is still there, with an
\* item in it
C15_Witness ==
    /\ lastOp.op = "delete_vehicle"
    /\ lastOp.hit
    /\ \E l \in DOMAIN db.Location :
         /\ db.Location[l].vehicle_id = NULL
         /\ Referenced(db, l)
    /\ lastOp.id \notin DOMAIN db.Vehicle

\* C16 (as claimed): no two location rows have the same (vehicle_id, side, row,
\* bin), two NULL vehicle ids counting as the same owner.
C16_LocationTupleUnique ==
    \A l1, l2 \in DOMAIN db.Location :
        (/\ db.Location[l1].vehicle_id = db.Location[l2].vehicle_id
         /\ db.Location[l1].side = db.Location[l2].side
         /\ db.Location[l1].row = db.Location[l2].row
         /\ db.Location[l1].bin = db.Location[l2].bin) => l1 = l2

EntityTables(d) == <<d.Vehicle, d.Location, d.Inventory, d.Audit>>

Rejected ==
    /\ ~lastOp'.ok
    /\ lastOp'.err = "IntegrityError"
    /\ EntityTables(db') = EntityTables(db)

\* the owner v already has a location (other than id) at side, row, bin
Occupied(d, id, v, side, row, bin) ==
    \E l \in (DOMAIN d.Location) \ {id} :
        /\ d.Location[l].vehicle_id = v
        /\ d.Location[l].side = side
        /\ d.Location[l].row = row
        /\ d.Location[l].bin = bin

\* a create or update call whose arguments break a rule of the schema: a vehicle
\* type other than Truck and Trailer, for a location a vehicle id that is no
\* vehicle row or the (vehicle, side, row, bin) of another location of that
\* vehicle, for an item a location id that is no location row
ViolatingCall ==
    \/ /\ lastOp'.op = "create_vehicle"
       /\ \E n \in IdSample :
            /\ lastOp'.id = Format08d(n)
            /\ \E ty \in {Some("Truck"), Some("Car")} :
                 /\ ty[1] \notin {"Truck", "Trailer"}
                 /\ create_vehicle(n, ty, Some("Engine 1"), Some("VIN1"), 1, 0, 0)
    \/ /\ lastOp'.op = "update_vehicle"
       /\ \E id \in DOMAIN db.Vehicle :
            /\ lastOp'.id = id
            /\ update_vehicle(id, Some("Car"), NULL, NULL, NULL, NULL, NULL)
    \/ /\ lastOp'.op = "create_location"
       /\ \E n \in IdSample :
            /\ lastOp'.id = Format08d(n)
            /\ \E v \in IdStrings, b \in {1, 2} :
                 /\ \/ v \notin DOMAIN db.Vehicle
                    \/ Occupied(db, NULL, v, Some("Left"), 1, b)
                 /\ create_location(n, Some("Left"), 1, b, v)
    \/ /\ lastOp'.op = "update_location"
       /\ \E id \in DOMAIN db.Location :
            /\ lastOp'.id = id
            /\ \/ \E v \in IdStrings :
                    /\ \/ v \notin DOMAIN db.Vehicle
                       \/ Occupied(db, id, v, db.Location[id].side,
                                   db.Location[id].row, db.Location[id].bin)
                    /\ update_location(id, NULL, NULL, NULL, v, NULL)
               \/ \E b \in {1, 2} :
                    /\ db.Location[id].vehicle_id # NULL
                    /\ Occupied(db, id, db.Location[id].vehicle_id,
                                db.Location[id].side, db.Location[id].row, b)
                    /\ update_location(id, NULL, NULL, Some(b), NULL, NULL)
    \/ /\ lastOp'.op = "create_inventory"
       /\ \E n \in IdSample :
            /\ lastOp'.id = Format08d(n)
            /\ \E l \in IdStrings \ DOMAIN db.Location :
                 create_inventory(n, Some("Oil filter"), l, FALSE, NULL, NULL, NULL)
    \/ /\ lastOp'.op = "update_inventory"
       /\ \E id \in DOMAIN db.Inventory :
            /\ lastOp'.id = id
            /\ \E l \in IdStrings \ DOMAIN db.Location :
                 update_inventory(id, NULL, l, NULL, NULL, NULL, NULL)

\* C17: a create or update call that names a vehicle type other than Truck and
\* Trailer, gives a location a vehicle id that is no vehicle row or the (vehicle,
\* side, row, bin) of another location of that vehicle, or gives an item a
\* location id that is no location row, raises IntegrityError and leaves the
\* Vehicle, Location, Inventory and InventoryAudit tables as they were.
C17_ViolationRejectedWhole == [][~Rejected => ~ViolatingCall]_vars

\* a second location at the side, row and bin of a vehicle's location has just
\* been refused; the id allocated for it is recorded and names no row
C17_Witness ==
    /\ lastOp.op = "create_location"
    /\ ~lastOp.ok
    /\ lastOp.rule = "UNIQUE"
    /\ lastOp.id \in db.GlobalId
    /\ lastOp.id \notin EntityIds(db)
    /\ \E v \in DOMAIN db.Vehicle : list_locations(db, v) # {}

----------------------------------------------------------------------------
(* Claims about update and create *)

\* the store differs from what it was in table t at most
OnlyTable(t) == db' = [db EXCEPT ![t] = db'[t]]

\* C18: an update call changes, in the row it names, the columns of the
\* arguments that were passed and updated_at (to the clock's reading), and
\* nothing else in the store: no other column, no other row, no other table; a
\* call with no argument passed changes nothing.
C18_SparseUpdate ==
    [][/\ \A id \in IdStrings, name \in {NULL, Some("Engine 2")}, mileage \in {NULL, Some(500)} :
            (lastOp'.op = "update_vehicle"
                /\ update_vehicle(id, NULL, name, NULL, NULL, mileage, NULL)) =>
                /\ OnlyTable("Vehicle")
                /\ DOMAIN db'.Vehicle = DOMAIN db.Vehicle
                /\ \A v \in DOMAIN db.Vehicle :
                     db'.Vehicle[v] =
                        IF v # id \/ (name = NULL /\ mileage = NULL) THEN db.Vehicle[v]
                        ELSE [db.Vehicle[v] EXCEPT
                                !.vehicle_name = IF name = NULL THEN @ ELSE name,
                                !.mileage = IF mileage = NULL THEN @ ELSE 500,
                                !.updated_at = now]
       /\ \A id \in IdStrings, side \in {NULL, Some("Right")}, row \in {NULL, Some(0)} :
            (lastOp'.op = "update_location"
                /\ update_location(id, side, row, NULL, NULL, NULL)) =>
                /\ OnlyTable("Location")
                /\ DOMAIN db'.Location = DOMAIN db.Location
                /\ \A l \in DOMAIN db.Location :
                     db'.Location[l] =
                        IF l # id \/ (side = NULL /\ row = NULL) THEN db.Location[l]
                        ELSE [db.Location[l] EXCEPT
                                !.side = IF side = NULL THEN @ ELSE side,
                                !.row = IF row = NULL THEN @ ELSE 0,
                                !.updated_at = now]
       /\ \A id \in IdStrings, description \in {NULL, Some("Filter")},
             consumable \in {NULL, Some(TRUE)} :
            (lastOp'.op = "update_inventory"
                /\ update_inventory(id, description, NULL, consumable, NULL, NULL, NULL)) =>
                /\ OnlyTable("Inventory")
                /\ DOMAIN db'.Inventory = DOMAIN db.Inventory
                /\ \A a \in DOMAIN db.Inventory :
                     db'.Inventory[a] =
                        IF a # id \/ (description = NULL /\ consumable = NULL)
                        THEN db.Inventory[a]
                        ELSE [db.Inventory[a] EXCEPT
                                !.description = IF description = NULL THEN @ ELSE description,
                                !.consumable = IF consumable = NULL THEN @ ELSE 1,
                                !.updated_at = now]]_vars

\* update_vehicle(mileage=500) has just changed the vehicle a second after its
\* creation: the mileage and updated_at are new, the name and created_at are not
C18_Witness ==
    /\ lastOp.op = "update_vehicle"
    /\ lastOp.hit
    /\ lastOp.id \in DOMAIN db.Vehicle
    /\ db.Vehicle[lastOp.id].mileage = 500
    /\ db.Vehicle[lastOp.id].vehicle_name = Some("Engine 1")
    /\ db.Vehicle[lastOp.id].created_at = 0
    /\ db.Vehicle[lastOp.id].updated_at = now
    /\ now > 0

\* C19 (as claimed): an update call with an argument passed, on an id that is
\* no row of the table, raises and changes nothing.
C19_MissingIdFails ==
    [][/\ \A id \in IdStrings \ DOMAIN db.Vehicle :
            update_vehicle(id, NULL, NULL, NULL, NULL, Some(500), NULL) =>
                ~lastOp'.ok /\ db' = db
       /\ \A id \in IdStrings \ DOMAIN db.Location :
            update_location(id, Some("Right"), NULL, NULL, NULL, NULL) =>
                ~lastOp'.ok /\ db' = db
       /\ \A id \in IdStrings \ DOMAIN db.Inventory :
            update_inventory(id, Some("Filter"), NULL, NULL, NULL, NULL, NULL) =>
                ~lastOp'.ok /\ db' = db]_vars

\* a required text argument that is None or ''
Blank(v) == v \in {NULL, Some("")}

\* C20 (as claimed): a create call whose description or location (item), side
\* (location), name or VIN (vehicle) is missing or empty raises and inserts no
\* row.
C20_BlankRequiredFieldRejected ==
    [][/\ \A n \in IdSample, name \in Names, vin \in {Some("VIN1"), Some("")} :
            (create_vehicle(n, Some("Truck"), name, vin, 1, 0, 0)
                /\ (Blank(name) \/ Blank(vin)))
            => (~lastOp'.ok /\ EntityTables(db') = EntityTables(db))
       /\ \A n \in IdSample, side \in Sides :
            (create_location(n, side, 1, 1, NULL) /\ Blank(side))
            => (~lastOp'.ok /\ EntityTables(db') = EntityTables(db))
       /\ \A n \in IdSample, description \in Descriptions, l \in IdStrings \cup {NULL} :
            (create_inventory(n, description, l, FALSE, NULL, NULL, NULL)
                /\ (Blank(description) \/ l = NULL))
            => (~lastOp'.ok /\ EntityTables(db') = EntityTables(db))]_vars

\* C21: right after a create call that returned, the entity it returned has
\* equal created_at and updated_at and is the entity get_vehicle, get_location
\* or get_inventory returns for its id.
C21_CreateReturnsStoredEntity ==
    (lastOp.ok /\ lastOp.op \in {"create_vehicle", "create_location", "create_inventory"}) =>
        /\ lastOp.value # NULL
        /\ lastOp.value[1].created_at = lastOp.value[1].updated_at
        /\ lastOp.value =
             CASE lastOp.op = "create_vehicle" -> get_vehicle(db, lastOp.id)
               [] lastOp.op = "create_location" -> get_location(db, lastOp.id)
               [] lastOp.op = "create_inventory" -> get_inventory(db, lastOp.id)

\* a vehicle, a location and an item are stored and the last call created the item
C21_Witness ==
    /\ lastOp.ok
    /\ lastOp.op = "create_inventory"
    /\ get_inventory(db, lastOp.id) # NULL
    /\ DOMAIN db.Vehicle # {}
    /\ DOMAIN db.Location # {}

----------------------------------------------------------------------------
(* Claims about the audit trail *)

\* the audit rows of d other than those of asset id
AuditsNotOf(d, id) ==
    [u \in {x \in DOMAIN d.Audit : d.Audit[x].asset_id # id} |-> d.Audit[u]]

\* C22: every audit row names an inventory row; record_audit for an asset id
\* that names no inventory row raises and writes nothing; delete_inventory
\* removes the audit rows of its item and leaves the others as they were;
\* record_audit leaves the rows already written as they were; no other call
\* changes the audit rows.
C22_AuditTrailFollowsItems ==
    /\ [](\A u \in DOMAIN db.Audit : db.Audit[u].asset_id \in DOMAIN db.Inventory)
    /\ [][/\ (lastOp'.op = "record_audit") =>
                /\ (lastOp'.id \notin DOMAIN db.Inventory) =>
                        (~lastOp'.ok /\ db' = db)
                /\ \A u \in DOMAIN db.Audit :
                        u \in DOMAIN db'.Audit /\ db'.Audit[u] = db.Audit[u]
          /\ \A id \in DOMAIN db.Inventory :
                (lastOp'.id = id /\ delete_inventory(id)) =>
                    (lastOp'.ok /\ db'.Audit = AuditsNotOf(db, id))
          /\ (lastOp'.op \notin {"record_audit", "delete_inventory"}) =>
                db'.Audit = db.Audit]_vars

\* an item with an audit row has just been deleted; the audit row of another
\* item is still there
C22_Witness ==
    /\ lastOp.op = "delete_inventory"
    /\ lastOp.hit
    /\ db.AuditSeq = 2
    /\ \E u \in DOMAIN db.Audit : DOMAIN db.Audit = {u}

\* C23 (as claimed): list_audits_for_asset(a) holds exactly the audit rows of
\* a, with audited_at never increasing along the list and, of two rows with
\* the same audited_at, the one recorded later (the larger audit_id) first.
C23_AuditsNewestFirst ==
    \A a \in IdStrings :
        LET rows == list_audits_for_asset(db, a)
        IN  /\ {rows[i].audit_id : i \in 1..Len(rows)} =
                    {u \in DOMAIN db.Audit : db.Audit[u].asset_id = a}
            /\ \A i, j \in 1..Len(rows) :
                    i < j =>
                        \/ rows[i].audited_at[1] > rows[j].audited_at[1]
                        \/ /\ rows[i].audited_at[1] = rows[j].audited_at[1]
                           /\ rows[i].audit_id > rows[j].audit_id

\* C24 (as claimed): every created_at, updated_at, last_audited_at and
\* audited_at that a call writes is the reading of the clock at the call.
C24_TimestampsFromRepositoryClock ==
    [][/\ \A t \in {"Vehicle", "Location", "Inventory"} : \A id \in DOMAIN db'[t] :
            IF id \in DOMAIN db[t]
            THEN /\ db'[t][id].created_at = db[t][id].created_at
                 /\ db'[t][id].updated_at \in {db[t][id].updated_at, iso_now}
            ELSE /\ db'[t][id].created_at = iso_now
                 /\ db'[t][id].updated_at = iso_now
       /\ \A l \in DOMAIN db'.Location :
            \/ db'.Location[l].last_audited_at = Some(iso_now)
            \/ db'.Location[l].last_audited_at =
                    IF l \in DOMAIN db.Location THEN db.Location[l].last_audited_at
                    ELSE NULL
       /\ \A u \in (DOMAIN db'.Audit) \ (DOMAIN db.Audit) :
            db'.Audit[u].audited_at = Some(iso_now)]_vars

----------------------------------------------------------------------------
(* Claims about the listings *)

ViewCall == lastOp.op = "list_inventory_view_filtered"

ItemCall == lastOp.op = "list_inventory_filtered"

\* the rows the last listing selects from: the filtered set
Matching ==
    IF ViewCall
    THEN {r \in {ViewRow(db, a) : a \in DOMAIN db.Inventory} :
            Where(r, lastOp.query[1].filters)}
    ELSE {r \in {get_inventory(db, a)[1] : a \in DOMAIN db.Inventory} :
            Truthy(lastOp.query[1].search) =>
                \E c \in {"asset_id", "description", "manufacturer", "model",
                          "serial_number", "location_id"} :
                    Like(TextOf(r, c), lastOp.query[1].search[1])}

\* the sort column the last listing asked for, the default for an unknown one
SortColumn ==
    LET allowed == IF ViewCall THEN Columns
                   ELSE {"description", "asset_id", "location_id"}
    IN  IF lastOp.query[1].order_by \in allowed THEN lastOp.query[1].order_by
        ELSE "description"

\* x comes strictly before y in the sort order the last listing asked for
Precedes(x, y) ==
    IF Descends(lastOp.query[1].order_dir) THEN Before(SortColumn, y, x)
    ELSE Before(SortColumn, x, y)

\* row r may stand at position pos of the filtered set in the asked sort order
InPlace(r, pos) ==
    /\ Cardinality({x \in Matching : Precedes(x, r)}) < pos
    /\ pos <= Cardinality({x \in Matching : ~Precedes(r, x)})

\* C25: a listing called with limit L > 0 and offset K >= 0 returns
\* min(L, N - K) rows (none when K >= N), N the size of the filtered set; they
\* are distinct rows of the filtered set, the i-th standing at position K + i of
\* the set in the asked sort order; total is N.
C25_PageIsSliceOfSortedSet ==
    ((ViewCall \/ ItemCall) /\ lastOp.query[1].limit > 0 /\ lastOp.query[1].offset >= 0) =>
        LET rows == lastOp.value[1].rows
            L == lastOp.query[1].limit
            K == lastOp.query[1].offset
            N == Cardinality(Matching)
        IN  /\ lastOp.value[1].total = N
            /\ Len(rows) = IF N - K < 0 THEN 0 ELSE IF N - K < L THEN N - K ELSE L
            /\ \A i \in 1..Len(rows) : rows[i] \in Matching /\ InPlace(rows[i], K + i)
            /\ \A i, j \in 1..Len(rows) : i < j => rows[i] # rows[j]

\* a page that neither starts nor ends the listing has just been returned
C25_Witness ==
    /\ ViewCall
    /\ lastOp.query[1].limit > 0
    /\ lastOp.query[1].offset > 0
    /\ Len(lastOp.value[1].rows) = lastOp.query[1].limit
    /\ lastOp.value[1].total > lastOp.query[1].offset + lastOp.query[1].limit

\* C26 (as claimed): a listing called with limit 0 or a negative limit returns
\* no rows, and total is the size of the filtered set.
C26_NoRowsForLimitBelowOne ==
    ((ViewCall \/ ItemCall) /\ lastOp.query[1].limit <= 0) =>
        /\ lastOp.value[1].rows = <<>>
        /\ lastOp.value[1].total = Cardinality(Matching)

\* the columns the global term is said to search: description, manufacturer,
\* model, serial number and the text of the location (its id, its side and its
\* vehicle)
SaidGlobalColumns ==
    {"description", "manufacturer", "model", "serial_number", "location_id", "side",
     "vehicle_name", "vehicle_type"}

\* C27 (as claimed): a whole listing with the global key set to t returns
\* exactly the items with t, case folded, in one of the said columns that
\* also pass every other filter.
C27_GlobalSearchesSaidColumns ==
    (ViewCall /\ lastOp.query[1].limit = 100 /\ Truthy(Get(lastOp.query[1].filters, "global"))) =>
        LET filters == lastOp.query[1].filters
            rows == lastOp.value[1].rows
            others == [key \in (DOMAIN filters) \ {"global"} |-> filters[key]]
        IN  {rows[i] : i \in 1..Len(rows)} =
                {r \in {ViewRow(db, a) : a \in DOMAIN db.Inventory} :
                    /\ \E c \in SaidGlobalColumns : Like(TextOf(r, c), filters.global[1])
                    /\ Where(r, others)}

\* C28 (as claimed): a whole listing with a row (bin) filter of value n >= 0
\* returns exactly the items whose location has row (bin) n.
C28_RowBinFilterExact ==
    (ViewCall /\ lastOp.query[1].limit = 100) =>
        \A key \in {"row", "bin"} \cap DOMAIN lastOp.query[1].filters :
            (DOMAIN lastOp.query[1].filters = {key} /\ lastOp.query[1].filters[key] >= 0) =>
                LET rows == lastOp.value[1].rows
                IN  {rows[i] : i \in 1..Len(rows)} =
                        {r \in {ViewRow(db, a) : a \in DOMAIN db.Inventory} :
                            r[key] = lastOp.query[1].filters[key]}

\* the filters without the keys that are neither a key of `columns` nor a
\* global key
KnownFilters(filters) ==
    [key \in (DOMAIN filters) \cap (Columns \cup {"global", "__global__"}) |-> filters[key]]

\* C29: what list_inventory_view_filtered may return is what it may return
\* for the same call without the filter keys outside the allow-list and with
\* description for a sort key outside it, and what it may return with one
\* more unknown filter key; list_inventory_filtered with a sort key outside
\* its allow-list may return what it may return sorted by description.
C29_UnknownKeysIgnored ==
    /\ ViewCall =>
        LET q == lastOp.query[1]
            answers(filters, order_by) ==
                list_inventory_view_filtered(db, filters, order_by, q.order_dir,
                                             q.limit, q.offset)
        IN  /\ lastOp.value[1] \in answers(q.filters, q.order_by)
            /\ answers(q.filters, q.order_by) =
                    answers(KnownFilters(q.filters),
                            IF q.order_by \in Columns THEN q.order_by ELSE "description")
            /\ answers(q.filters, q.order_by) =
                    answers(Put(q.filters, "unknown; --", Some(TermFour)), q.order_by)
    /\ ItemCall =>
        LET q == lastOp.query[1]
            answers(order_by) ==
                list_inventory_filtered(db, q.search, q.limit, q.offset, order_by,
                                        q.order_dir)
        IN  /\ lastOp.value[1] \in answers(q.order_by)
            /\ (q.order_by \notin {"description", "asset_id", "location_id"}) =>
                    answers(q.order_by) = answers("description")

\* a listing called with a filter key outside the allow-list has just returned
\* rows
C29_Witness ==
    /\ ViewCall
    /\ "owner" \in DOMAIN lastOp.query[1].filters
    /\ lastOp.value[1].rows # <<>>
    /\ lastOp.value[1].total < Cardinality(DOMAIN db.Inventory)

----------------------------------------------------------------------------
(* Claims about the retention of backup files                              *)

\* the m files of `names` with the newest timestamps in their names, or all of
\* them when there are at most m
Newest(names, m) ==
    IF Cardinality(names) <= m
    THEN names
    ELSE CHOOSE S \in SUBSET names :
            /\ Cardinality(S) = m
            /\ \A x \in S, y \in names \ S : y < x

\* the backup files last written by worker k
WrittenBy(d, k) == {t \in DOMAIN d : d[t].by[Len(d[t].by)] = k}

\* worker k's prune_backups returns, having unlinked every path of
\* backups[:-max_backups]
PrunedAll(k) ==
    /\ wpc[k] = "prune"
    /\ wpc'[k] = "post"
    /\ max_backups >= 1
    /\ removed'[k] = prune_candidates(DOMAIN files, max_backups)

PreExisting(d) == {t \in DOMAIN d : d[t].by[1] = 0}

\* the m files of `names` with the oldest timestamps in their names
Oldest(names, m) == names \ Newest(names, Cardinality(names) - m)

C32_NoPruneWhenDisabledOrFailed ==
    [][/\ ~((DOMAIN files) \subseteq (DOMAIN files')) =>
            /\ max_backups >= 1
            /\ \E k \in Workers :
                    /\ wpc[k] = "prune"
                    /\ outcome[k] # "copy_failed"
                    /\ outcome'[k] = "ok"
       /\ \A k \in Workers :
            outcome[k] = "copy_failed" =>
                outcome'[k] = "copy_failed" /\ removed'[k] = {}]_vars

\* a backup with retention 0 or less has succeeded on a directory of several
\* files and removed none
C32_Witness ==
    \E k \in Workers :
        /\ max_backups <= 0
        /\ wpc[k] = "post"
        /\ outcome[k] = "ok"
        /\ removed[k] = {}
        /\ Cardinality(DOMAIN files) > MaxKept

----------------------------------------------------------------------------
(* Claims about the backup files                                           *)

\* C33: a backup that starts to write its copy adds one file to the backup
\* directory, under a name no file there has, and a file of the directory is
\* only ever changed by the backup that created it.
C33_BackupWritesFileOfItsOwn ==
    [][/\ \A k \in Workers :
            (wpc[k] = "copy" /\ wpc'[k] = "copying") =>
                Cardinality((DOMAIN files') \ (DOMAIN files)) = 1
       /\ \A t \in (DOMAIN files) \cap (DOMAIN files') :
            files'[t].by = files[t].by]_vars

----------------------------------------------------------------------------
(* Claims about the rows and bins of locations                             *)

\* C34: every stored Location has row >= 0 and bin >= 0.
C34_RowBinNonNegative ==
    \A l \in DOMAIN db.Location :
        db.Location[l].row >= 0 /\ db.Location[l].bin >= 0

----------------------------------------------------------------------------
(* Claims about arguments passed as None                                   *)

\* the columns of SCHEMA_SQL that may hold NULL
NullableColumns ==
    [Location |-> {"vehicle_id", "last_audited_at"},
     Inventory |-> {"manufacturer", "model", "serial_number"}]

\* some row of table t holds NULL in a nullable column where it held a value
Nulled(t) ==
    \E id \in (DOMAIN db[t]) \cap (DOMAIN db'[t]), c \in NullableColumns[t] :
        db[t][id][c] # NULL /\ db'[t][id][c] = NULL

\* C38: an update call, which passes None for every field it does not set,
\* leaves no stored field null that held a value; the vehicle reference of a
\* Location goes from a vehicle to null only in the delete_vehicle call that
\* deletes that vehicle.
C38_NoneIsOmitted ==
    [][/\ lastOp'.op \in {"update_vehicle", "update_location", "update_inventory"} =>
            ~Nulled("Location") /\ ~Nulled("Inventory")
       /\ \A l \in (DOMAIN db.Location) \cap (DOMAIN db'.Location) :
            (db.Location[l].vehicle_id # NULL /\ db'.Location[l].vehicle_id = NULL) =>
                /\ lastOp'.op = "delete_vehicle"
                /\ lastOp'.id = db.Location[l].vehicle_id
                /\ db.Location[l].vehicle_id \notin DOMAIN db'.Vehicle]_vars

\* update_location, called with a bin and None for the vehicle, has just
\* changed a location that keeps its vehicle
C38_Witness ==
    /\ lastOp.op = "update_location"
    /\ lastOp.ok
    /\ lastOp.id \in DOMAIN db.Location
    /\ db.Location[lastOp.id].vehicle_id # NULL
    /\ db.Location[lastOp.id].bin = 2
    /\ db.Location[lastOp.id].updated_at = now

----------------------------------------------------------------------------
(* Claims about the scheduler's flag and the order of its signals          *)

\* no worker thread is alive: none has been launched that has not ended
NoWorkerAlive == \A k \in Workers : wpc[k] \in {"idle", "done"}

\* C35: in every reachable state, _running is true while a backup holds the
\* lock, and false when no backup worker is alive.
C35_RunningWhileInFlight ==
    /\ lockHeld => running
    /\ NoWorkerAlive => ~running

\* C36: in the order of emission, the started signal of every backup after
\* the first comes after the finished or failed signal of the backup before
\* it.
C36_StartedAfterPreviousCompletion ==
    \A i \in 1..Len(emitted) :
        (emitted[i].sig = "started" /\ emitted[i].k > 1) =>
            \E j \in 1..(i - 1) :
                /\ emitted[j].k = emitted[i].k - 1
                /\ emitted[j].sig \in {"finished", "failed"}

\* C37: a backup whose copy failed has left no file in the backup directory:
\* every file there is the finished copy of some backup, or is being written
\* by a backup whose copy is still running.
C37_FailedCopyLeavesNoFile ==
    \A t \in DOMAIN files :
        \/ files[t].complete
        \/ \E k \in Workers : wpc[k] = "copying" /\ t \in WrittenBy(files, k)

----------------------------------------------------------------------------
(* Claims about the caller's filters mapping                               *)

\* C39: list_inventory_view_filtered leaves the caller's filters mapping as
\* it was passed, and a second call with the same mapping object on the
\* unchanged store returns rows and a total that the first call, with the
\* filters it was given, could have returned.
C39_FiltersLeftUnchanged ==
    ViewCall =>
        LET q == lastOp.query[1]
        IN  /\ q.left = q.filters
            /\ q.first # NULL =>
                    lastOp.value[1] \in
                        list_inventory_view_filtered(db, q.first[1], q.order_by,
                                                     q.order_dir, q.limit, q.offset)

====
